---- MODULE Spec2Model ----
(***************************************************************************)
(* MEGAPhone: voice streaming over a ledger's event log.                   *)
(*                                                                         *)
(* The module models the listening side (AudioPlayer: jitter buffer and    *)
(* playback driver), the relay contract's Batch event together with the    *)
(* decoding of a batch, the broadcasting side (OpusEncoder: sequencer,     *)
(* transmission queue, pacer) and the two submitters (nonce tracking and   *)
(* retrying raw submission).  Each part has its own specification; the     *)
(* variables of the other parts stay at their initial values.              *)
(***************************************************************************)
EXTENDS Integers, Sequences, FiniteSets, TLC

(***************************************************************************)
(* Program constants                                                       *)
(***************************************************************************)
\* bytes per frame (audio.ts: const FRAME_SIZE = 160)
FRAME_SIZE == 160
\* milliseconds of audio per frame (audio.ts: Math.ceil(jitterBufferMs / 20))
FRAME_MS == 20
\* frames kept behind expectedSequence (audio.ts: expectedSequence - 100)
RETENTION_WINDOW == 100
\* jitterBufferMs of a fresh AudioPlayer
DEFAULT_JITTER_MS == 100

(***************************************************************************)
(* Bounds of the model                                                     *)
(***************************************************************************)
\* batches start at sequence 0 or, heard mid-stream, at 5..LastSeq
LastSeq == 9
\* batches of the late part of a stream start at FarSeq..FarSeq+FarSpan
FarSeq == 110
FarSpan == 2
\* whole frames in the payload of one delivered batch
MaxBatchFrames == 2
\* cap of the counter of timer ticks spent on one gap
MaxGapTicks == 5

VARIABLES
  \* ---- AudioPlayer
  lossSkip,          \* TRUE: the build with loss handling in processFrames
  isPlaying,
  audioContext,      \* TRUE: audioContext and gainNode are set
  jitterBufferMs,
  frameMap,          \* sequence -> frame bytes
  expectedSequence,
  packetsPlayed,
  packetsLost,
  processingInterval,\* TRUE: the 10 ms timer is scheduled
  statsInterval,     \* TRUE: the 500 ms timer is scheduled
  \* ---- observation of the playback session
  emitted,           \* sequences handed to playAudioFrame by the last operation
  lastPlayed,        \* last sequence handed to playback before it (-1: none)
  countTicks,        \* TRUE: gapTicks is recorded
  gapTicks,          \* timer ticks that left the same missing sequence expected
  traceCalls,        \* TRUE: offeredFrames and bufferDepth are recorded
  traceBatches,      \* TRUE: batchCall is recorded
  batchCall,         \* <<arguments>> of the processBatch the operation was
  offeredFrames,     \* the frames the last processBatch offered to the buffer
  bufferDepth,       \* <<bufferDepth>> of the last processFrames that computed it
  bootstrapSeq       \* <<value expectedSequence took at the session's bootstrap>>

playerVars == <<lossSkip, isPlaying, audioContext, jitterBufferMs, frameMap,
                expectedSequence, packetsPlayed, packetsLost,
                processingInterval, statsInterval, emitted, lastPlayed,
                countTicks, gapTicks, traceCalls, traceBatches,
                batchCall, offeredFrames, bufferDepth, bootstrapSeq>>

(***************************************************************************)
(* Helpers                                                                 *)
(***************************************************************************)
Min(S) == CHOOSE x \in S : \A y \in S : x <= y
Max(S) == CHOOSE x \in S : \A y \in S : x >= y

\* Math.floor(a / b) and Math.ceil(a / b) for a >= 0, b > 0
Floor(a, b) == a \div b
Ceil(a, b) == (a + b - 1) \div b

\* a payload of len bytes: byte j (0-based) is (g + j) mod m
Pattern(g, m, len) == [j \in 1..len |-> (g + j - 1) % m]

\* Uint8Array.slice(from, to), 0-based, end exclusive, clipped to the array
Slice(bytes, from, to) ==
  LET hi == IF to < Len(bytes) THEN to ELSE Len(bytes)
  IN IF from >= hi THEN <<>> ELSE SubSeq(bytes, from + 1, hi)

(***************************************************************************)
(* AudioPlayer.processBatch: the frames a batch offers to the jitter       *)
(* buffer                                                                  *)
(***************************************************************************)
\* count after the validation of the payload size
AdjustedCount(count, payload) ==
  IF Len(payload) < count * FRAME_SIZE
  THEN Floor(Len(payload), FRAME_SIZE)
  ELSE count

\* mutant of DecodeBatch: every whole frame of the payload is offered,
\* whatever the count
DecodeBatch_Whole(seqStart, count, payload) ==
  [i \in 1..Floor(Len(payload), FRAME_SIZE) |->
     [sequence |-> seqStart + (i - 1),
      data |-> Slice(payload, (i - 1) * FRAME_SIZE, (i - 1) * FRAME_SIZE + FRAME_SIZE)]]

\* the (sequence, bytes) pairs the loop of processBatch offers, in order
DecodeBatch(seqStart, count, payload) ==
  LET n == AdjustedCount(count, payload)
      ok == {i \in 0..(n - 1) : i * FRAME_SIZE + FRAME_SIZE <= Len(payload)}
  IN [i \in 1..Cardinality(ok) |->
        [sequence |-> seqStart + (i - 1),
         data |-> Slice(payload, (i - 1) * FRAME_SIZE, (i - 1) * FRAME_SIZE + FRAME_SIZE)]]

\* the loop's frameMap.set for every offered frame whose sequence is not yet
\* buffered: a buffered sequence keeps its bytes, a new one gets the bytes
\* of the first offered frame that carries it
InsertFrames(fm, fs) ==
  LET offered == {fs[i].sequence : i \in 1..Len(fs)}
      first(s) == Min({i \in 1..Len(fs) : fs[i].sequence = s})
  IN [s \in DOMAIN fm \cup offered |->
        IF s \in DOMAIN fm THEN fm[s] ELSE fs[first(s)].data]

(***************************************************************************)
(* AudioPlayer.processFrames                                               *)
(***************************************************************************)
\* jitter buffer size in frames
JitterBufferFrames(ms) == Ceil(ms, FRAME_MS)

\* mutant of Bootstrap: falls back to the lowest buffered sequence whenever
\* it is below the expected one
Bootstrap_Resync(exp, lowestSeq) ==
  IF lowestSeq > 0 /\ (exp = 0 \/ lowestSeq < exp) THEN lowestSeq ELSE exp

\* mutant of Bootstrap: starts from the lowest buffered sequence on every call
Bootstrap_Lowest(exp, lowestSeq) ==
  IF lowestSeq > 0 THEN lowestSeq ELSE exp

\* mutant of Bootstrap: the expected sequence is never initialised
Bootstrap_Never(exp, lowestSeq) == exp

\* "Initialize expected sequence if it's the first frame"
Bootstrap(exp, lowestSeq) ==
  IF exp = 0 /\ lowestSeq > 0 THEN lowestSeq ELSE exp

\* mutant of Buffering: the gate opens one frame early
Buffering_Early(highestSeq, exp, ms) ==
  highestSeq - exp + 1 < JitterBufferFrames(ms) - 1

\* TRUE when processFrames returns at "Still buffering"
Buffering(highestSeq, exp, ms) ==
  highestSeq - exp + 1 < JitterBufferFrames(ms)

\* mutant of DrainLoop: a played frame is not counted
DrainLoop_Uncounted(fm, exp, played, out, canPlay) ==
  LET end == IF exp \notin DOMAIN fm THEN exp
             ELSE 1 + Min({s \in DOMAIN fm : s >= exp /\ s + 1 \notin DOMAIN fm})
      n == end - exp
  IN [frameMap |-> [s \in DOMAIN fm \ (exp..(end - 1)) |-> fm[s]],
      expectedSequence |-> end,
      packetsPlayed |-> played,
      emitted |-> IF canPlay THEN out \o [i \in 1..n |-> exp + (i - 1)] ELSE out]

\* the while loop: play and remove frames from expectedSequence on.  The
\* loop ends at the first sequence from exp on that is not buffered; the
\* frames before it are played (when the audio context is there) and removed
DrainLoop(fm, exp, played, out, canPlay) ==
  LET end == IF exp \notin DOMAIN fm THEN exp
             ELSE 1 + Min({s \in DOMAIN fm : s >= exp /\ s + 1 \notin DOMAIN fm})
      n == end - exp
  IN [frameMap |-> [s \in DOMAIN fm \ (exp..(end - 1)) |-> fm[s]],
      expectedSequence |-> end,
      packetsPlayed |-> IF canPlay THEN played + n ELSE played,
      emitted |-> IF canPlay THEN out \o [i \in 1..n |-> exp + (i - 1)] ELSE out]

\* mutant of NextAvailable: jumps to the newest buffered sequence
NextAvailable_Newest(availableSeqs, exp, skip) ==
  LET ahead == {s \in availableSeqs : s > exp}
  IN IF skip /\ ahead # {} THEN Max(ahead) ELSE 0

\* "Handle packet loss": the sequence to jump to, or 0 when there is none
\* (availableSeqs.find(seq => seq > expectedSequence), undefined as 0: the
\* test "nextSeq && ..." treats both alike)
NextAvailable(availableSeqs, exp, skip) ==
  LET ahead == {s \in availableSeqs : s > exp}
  IN IF skip /\ ahead # {} THEN Min(ahead) ELSE 0

\* "Clean up old frames": the map without the old sequences of availableSeqs
Evict(fm, availableSeqs, exp) ==
  LET oldestFrameToKeep == exp - RETENTION_WINDOW
      old == {s \in availableSeqs : s < oldestFrameToKeep}
  IN [s \in DOMAIN fm \ old |-> fm[s]]

\* the player's buffer state as a record
PlayerState ==
  [frameMap |-> frameMap, expectedSequence |-> expectedSequence,
   packetsPlayed |-> packetsPlayed, packetsLost |-> packetsLost]

\* processFrames on buffer state st; the result adds the emitted sequences
ProcessFrames(st, ms, canPlay, skip) ==
  IF DOMAIN st.frameMap = {}
  THEN st @@ [emitted |-> <<>>, bufferDepth |-> <<>>, bootstrap |-> <<>>]
  ELSE
    LET availableSeqs == DOMAIN st.frameMap
        lowestSeq == Min(availableSeqs)
        highestSeq == Max(availableSeqs)
        exp0 == Bootstrap(st.expectedSequence, lowestSeq)
        depth == <<highestSeq - exp0 + 1>>
        boot == IF exp0 # st.expectedSequence THEN <<exp0>> ELSE <<>>
    IN IF Buffering(highestSeq, exp0, ms)
       THEN [frameMap |-> st.frameMap, expectedSequence |-> exp0,
             packetsPlayed |-> st.packetsPlayed, packetsLost |-> st.packetsLost,
             emitted |-> <<>>, bufferDepth |-> depth, bootstrap |-> boot]
       ELSE
         LET d == DrainLoop(st.frameMap, exp0, st.packetsPlayed, <<>>, canPlay)
             nextSeq == NextAvailable(availableSeqs, d.expectedSequence, skip)
             jump == nextSeq # 0 /\ nextSeq > d.expectedSequence
             exp2 == IF jump THEN nextSeq ELSE d.expectedSequence
             lost == IF jump THEN st.packetsLost + (nextSeq - d.expectedSequence)
                     ELSE st.packetsLost
         IN [frameMap |-> Evict(d.frameMap, availableSeqs, exp2),
             expectedSequence |-> exp2,
             packetsPlayed |-> d.packetsPlayed, packetsLost |-> lost,
             emitted |-> d.emitted, bufferDepth |-> depth, bootstrap |-> boot]

\* processBatch on buffer state st while playing
ProcessBatchOn(st, seqStart, count, payload, ms, canPlay, skip) ==
  IF Len(payload) = 0
  THEN st @@ [emitted |-> <<>>, bufferDepth |-> <<>>, bootstrap |-> <<>>]
  ELSE ProcessFrames(
         [st EXCEPT !.frameMap = InsertFrames(st.frameMap,
                                              DecodeBatch(seqStart, count, payload))],
         ms, canPlay, skip)

(***************************************************************************)
(* AudioPlayer: operations                                                 *)
(***************************************************************************)
\* the frames of the stream that reach a listener: the stream is heard from
\* its first frame (0) and again from frame 5 to its last frame, LastSeq
StreamSeqs == {0} \cup (5..LastSeq)
\* the same for a listener that hears the first frame and a late part
FarStreamSeqs == {0} \cup (FarSeq..(FarSeq + FarSpan))
\* the same, few, for the specification with fair timer ticks
LiveStreamSeqs == 5..(LastSeq - 1)
\* count and payload length of a delivered batch: one frame, a full batch,
\* a payload one byte short, a count below the payload's frames, no payload
BatchShapes ==
  {[count |-> 1, len |-> FRAME_SIZE],
   [count |-> MaxBatchFrames, len |-> MaxBatchFrames * FRAME_SIZE],
   [count |-> MaxBatchFrames, len |-> MaxBatchFrames * FRAME_SIZE - 1],
   [count |-> 1, len |-> MaxBatchFrames * FRAME_SIZE],
   [count |-> 1, len |-> 0]}
\* the batches delivered to a listener: every frame a batch counts is one
\* of the stream's frames `seqs`
BatchInputs(seqs) ==
  {b \in {[seqStart |-> s, count |-> sh.count,
           payload |-> Pattern(0, FRAME_SIZE, sh.len)] : s \in seqs, sh \in BatchShapes} :
     \A i \in 0..(b.count - 1) : b.seqStart + i \in seqs}
\* values the caller gives setJitterBufferMs
JitterChoices == {50, DEFAULT_JITTER_MS}

\* the observation after an operation that emitted `out`
Observe(out) ==
  /\ emitted' = out
  /\ lastPlayed' = IF emitted = <<>> THEN lastPlayed ELSE emitted[Len(emitted)]

\* a missing sequence is expected while a later one is buffered
GapAt(fm, exp) == exp \notin DOMAIN fm /\ \E h \in DOMAIN fm : h > exp

\* the state after an operation whose buffer result is r
Commit(r) ==
  /\ frameMap' = r.frameMap
  /\ expectedSequence' = r.expectedSequence
  /\ packetsPlayed' = r.packetsPlayed
  /\ packetsLost' = r.packetsLost
  /\ Observe(r.emitted)
  /\ bufferDepth' = IF traceCalls THEN r.bufferDepth ELSE <<>>
  /\ bootstrapSeq' = IF r.bootstrap # <<>> THEN r.bootstrap ELSE bootstrapSeq

\* AudioPlayer.start(): the constructor of AudioContext throws, or all of it runs
PlayerStartFails ==
  /\ ~isPlaying
  /\ UNCHANGED playerVars

\* mutant of PlayerStart: start() without its "Reset state" block
PlayerStart_NoReset ==
  /\ ~isPlaying
  /\ audioContext' = TRUE
  /\ isPlaying' = TRUE
  /\ processingInterval' = TRUE
  /\ statsInterval' = TRUE
  /\ emitted' = <<>>
  /\ lastPlayed' = -1
  /\ gapTicks' = 0
  /\ batchCall' = <<>>
  /\ offeredFrames' = <<>>
  /\ bufferDepth' = <<>>
  /\ bootstrapSeq' = <<>>
  /\ UNCHANGED <<lossSkip, jitterBufferMs, countTicks, traceCalls,
                 traceBatches, frameMap,
                 expectedSequence, packetsPlayed, packetsLost>>

PlayerStart ==
  /\ ~isPlaying
  /\ audioContext' = TRUE
  /\ frameMap' = <<>>
  /\ expectedSequence' = 0
  /\ packetsPlayed' = 0
  /\ packetsLost' = 0
  /\ isPlaying' = TRUE
  /\ processingInterval' = TRUE
  /\ statsInterval' = TRUE
  /\ emitted' = <<>>
  /\ lastPlayed' = -1
  /\ gapTicks' = 0
  /\ batchCall' = <<>>
  /\ offeredFrames' = <<>>
  /\ bufferDepth' = <<>>
  /\ bootstrapSeq' = <<>>
  /\ UNCHANGED <<lossSkip, jitterBufferMs, countTicks, traceCalls,
                 traceBatches>>

\* AudioPlayer.stop()
PlayerStop ==
  /\ isPlaying
  /\ statsInterval' = FALSE
  /\ processingInterval' = FALSE
  /\ audioContext' = FALSE
  /\ isPlaying' = FALSE
  /\ frameMap' = <<>>
  /\ Observe(<<>>)
  /\ gapTicks' = 0
  /\ batchCall' = <<>>
  /\ offeredFrames' = <<>>
  /\ bufferDepth' = <<>>
  /\ UNCHANGED <<lossSkip, jitterBufferMs, expectedSequence, packetsPlayed,
                 packetsLost, countTicks, traceCalls,
                 traceBatches, bootstrapSeq>>

\* mutant of ProcessBatch: processBatch without the test of isPlaying
ProcessBatch_Unguarded(seqStart, count, payload) ==
  LET r == ProcessBatchOn(PlayerState, seqStart, count, payload,
                          jitterBufferMs, audioContext, lossSkip)
  IN /\ Commit(r)
     /\ gapTicks' = 0
     /\ batchCall' = <<>>
     /\ offeredFrames' = <<>>
     /\ UNCHANGED <<lossSkip, isPlaying, audioContext, jitterBufferMs,
                    processingInterval, statsInterval, countTicks, traceCalls,
                    traceBatches>>

\* AudioPlayer.processBatch(seqStart, count, payload)
ProcessBatch(seqStart, count, payload) ==
  IF ~isPlaying
  THEN UNCHANGED playerVars
  ELSE
    LET r == ProcessBatchOn(PlayerState, seqStart, count, payload,
                            jitterBufferMs, audioContext, lossSkip)
    IN /\ Commit(r)
       /\ gapTicks' = IF r.expectedSequence = expectedSequence
                         /\ GapAt(r.frameMap, r.expectedSequence)
                      THEN gapTicks ELSE 0
       /\ batchCall' = IF traceBatches
                       THEN <<[seqStart |-> seqStart, count |-> count,
                               payload |-> payload]>>
                       ELSE <<>>
       /\ offeredFrames' = IF traceCalls /\ Len(payload) > 0
                           THEN DecodeBatch(seqStart, count, payload) ELSE <<>>
       /\ UNCHANGED <<lossSkip, isPlaying, audioContext, jitterBufferMs,
                      processingInterval, statsInterval, countTicks, traceCalls,
                 traceBatches>>

\* the 10 ms timer of start(): processFrames while playing
ProcessFramesTick ==
  /\ processingInterval
  /\ isPlaying
  /\ LET r == ProcessFrames(PlayerState, jitterBufferMs, audioContext, lossSkip)
     IN /\ Commit(r)
        /\ gapTicks' = IF countTicks /\ r.expectedSequence = expectedSequence
                          /\ GapAt(r.frameMap, r.expectedSequence)
                       THEN (IF gapTicks < MaxGapTicks THEN gapTicks + 1 ELSE gapTicks)
                       ELSE 0
  /\ batchCall' = <<>>
  /\ offeredFrames' = <<>>
  /\ UNCHANGED <<lossSkip, isPlaying, audioContext, jitterBufferMs,
                 processingInterval, statsInterval, countTicks, traceCalls,
                 traceBatches>>

\* AudioPlayer.setJitterBufferMs(ms)
SetJitterBufferMs(ms) ==
  /\ jitterBufferMs' = ms
  /\ batchCall' = <<>>
  /\ offeredFrames' = <<>>
  /\ bufferDepth' = <<>>
  /\ UNCHANGED <<lossSkip, isPlaying, audioContext, frameMap, expectedSequence,
                 packetsPlayed, packetsLost, processingInterval, statsInterval,
                 emitted, lastPlayed, countTicks, gapTicks, traceCalls,
                 traceBatches, bootstrapSeq>>

PlayerInit ==
  /\ lossSkip \in BOOLEAN
  /\ isPlaying = FALSE
  /\ audioContext = FALSE
  /\ jitterBufferMs = DEFAULT_JITTER_MS
  /\ frameMap = <<>>
  /\ expectedSequence = 0
  /\ packetsPlayed = 0
  /\ packetsLost = 0
  /\ processingInterval = FALSE
  /\ statsInterval = FALSE
  /\ emitted = <<>>
  /\ lastPlayed = -1
  /\ countTicks \in BOOLEAN
  /\ gapTicks = 0
  /\ traceCalls \in BOOLEAN
  /\ traceBatches \in BOOLEAN
  /\ batchCall = <<>>
  /\ offeredFrames = <<>>
  /\ bufferDepth = <<>>
  /\ bootstrapSeq = <<>>

PlayerNext(inputs) ==
  \/ PlayerStart
  \/ PlayerStartFails
  \/ PlayerStop
  \/ \E b \in inputs : ProcessBatch(b.seqStart, b.count, b.payload)
  \/ ProcessFramesTick
  \/ \E ms \in JitterChoices : SetJitterBufferMs(ms)

(***************************************************************************)
(* The relay contract and the path of a batch from submission to decoding  *)
(***************************************************************************)
\* largest uint8 (sendBatch: uint8 count)
UINT8_MAX == 255

\* whole frames of a submitted batch
WireFrameCounts == {0, 1, UINT8_MAX}
\* bytes that follow the whole frames (a payload short of the next multiple)
WireTails == {0, 1, FRAME_SIZE - 1}
\* first sequence number of a submitted batch (a uint32): the first frame of
\* a stream, an early one, one after 40,000,000 s of streaming
LateSeqStart == 2000000000
WireSeqStarts == {0, 7, LateSeqStart}
\* period of the byte pattern of a submitted batch: frames differ in content
WirePeriod == 251

VARIABLES
  \* ---- a batch on its way
  wirePhase,         \* "idle", "submitted", "emitted", "delivered"
  wireFrames,        \* the frames handed to the submitter, in order
  wireTail,          \* the bytes after the last whole frame
  wireCall,          \* arguments of the sendBatch call (frames as hex digits)
  wireEvent,         \* the Batch event (payload as hex digits)
  wireDecoded,       \* the frames processBatch offered to the buffer
  wireHeard          \* TRUE: the player was playing at delivery

wireVars == <<wirePhase, wireFrames, wireTail, wireCall, wireEvent, wireDecoded,
              wireHeard>>

\* toHex(bytes): two hex digits per byte, high digit first
ToHex(bytes) ==
  LET n == 2 * Len(bytes)
      digits == [j \in 1..n |->
                   IF j % 2 = 1 THEN bytes[(j + 1) \div 2] \div 16
                   ELSE bytes[j \div 2] % 16]
  IN SubSeq(digits, 1, n)

\* mutant of HexToBytes: reads the low digit of a byte first
HexToBytes_LowFirst(hex) ==
  LET n == Len(hex) \div 2
      bytes == [j \in 1..n |-> hex[2 * j - 1] + 16 * hex[2 * j]]
  IN SubSeq(bytes, 1, n)

\* hexToBytes(hex)
HexToBytes(hex) ==
  LET n == Len(hex) \div 2
      bytes == [j \in 1..n |-> 16 * hex[2 * j - 1] + hex[2 * j]]
  IN SubSeq(bytes, 1, n)

\* the k frames of a batch followed by the tail, as one byte array
Concat(frames, tail) ==
  LET whole == Len(frames) * FRAME_SIZE
      n == whole + Len(tail)
      bytes == [j \in 1..n |->
                  IF j <= whole
                  THEN frames[((j - 1) \div FRAME_SIZE) + 1][((j - 1) % FRAME_SIZE) + 1]
                  ELSE tail[j - whole]]
  IN SubSeq(bytes, 1, n)

\* sendBatch: uint8 count = uint8(frames.length / 160)
ContractCount(len) == (len \div FRAME_SIZE) % (UINT8_MAX + 1)

\* the broadcaster hands k frames and a tail to the submitter, which calls
\* sendBatch(channelId, seqStart, toHex(frames)); one batch is followed per run
WireSubmit(seqStart, k, g, t) ==
  /\ wirePhase = "idle"
  /\ LET frames == [i \in 1..k |-> Pattern(g + (i - 1) * FRAME_SIZE, WirePeriod, FRAME_SIZE)]
         tail == Pattern(g + k * FRAME_SIZE, WirePeriod, t)
     IN /\ wireFrames' = frames
        /\ wireTail' = tail
        /\ wireCall' = [seqStart |-> seqStart, frames |-> ToHex(Concat(frames, tail))]
  /\ wirePhase' = "submitted"
  /\ wireEvent' = <<>>
  /\ wireDecoded' = <<>>
  /\ wireHeard' = FALSE
  /\ UNCHANGED playerVars

\* OnchainBroadcast.sendBatch
ContractSendBatch ==
  /\ wirePhase = "submitted"
  /\ wireEvent' = [seqStart |-> wireCall.seqStart,
                   count |-> ContractCount(Len(wireCall.frames) \div 2),
                   payload |-> wireCall.frames]
  /\ wirePhase' = "emitted"
  /\ UNCHANGED <<wireFrames, wireTail, wireCall, wireDecoded, wireHeard>>
  /\ UNCHANGED playerVars

\* the listener's onLogs: the event is decoded and handed to processBatch
OnLogs ==
  /\ wirePhase = "emitted"
  /\ LET framesBytes == HexToBytes(wireEvent.payload)
     IN /\ ProcessBatch(wireEvent.seqStart, wireEvent.count, framesBytes)
        /\ wireDecoded' = IF isPlaying /\ Len(framesBytes) # 0
                          THEN DecodeBatch(wireEvent.seqStart, wireEvent.count, framesBytes)
                          ELSE <<>>
  /\ wireHeard' = isPlaying
  /\ wirePhase' = "delivered"
  /\ UNCHANGED <<wireFrames, wireTail, wireCall, wireEvent>>

WireInit ==
  /\ wirePhase = "idle"
  /\ wireFrames = <<>>
  /\ wireTail = <<>>
  /\ wireCall = <<>>
  /\ wireEvent = <<>>
  /\ wireDecoded = <<>>
  /\ wireHeard = FALSE

(***************************************************************************)
(* OpusEncoder: sequencer, transmission queue and pacer                    *)
(***************************************************************************)
\* null, where a number is expected
NULL == -1
\* chunks the recorder delivers in one run
MaxChunks == 2
\* start() calls that wait for the microphone, or whose timers were
\* orphaned by a later start()
MaxPendingStarts == 2
\* sizes in bytes of a chunk (event.data.size > 0)
ChunkSizes == {FRAME_SIZE \div 2, 2 * FRAME_SIZE}

VARIABLES
  \* ---- OpusEncoder
  isRecording,
  sendFunction,          \* TRUE: sendFunction is set
  metricsCallback,       \* TRUE: metricsCallback is set
  encProcessingInterval, \* TRUE: processingInterval holds a timer
  batchingInterval,      \* TRUE: batchingInterval holds a timer
  orphanedStarts,        \* recorders and timer pairs whose handles a later start() overwrote
  startsPending,         \* start() calls waiting for getUserMedia
  recorderActive,        \* TRUE: the mediaRecorder of the last start() is recording
  recorderFlush,         \* TRUE: a stopped recorder still owes its last chunk
  audioChunks,
  frameQueue,
  sequence,
  totalBatchesSent,
  totalBytesTransmitted,
  lastLatency,
  inFlight,              \* frames handed to sendFunction whose promise is pending
  \* ---- observation of the broadcast
  captured,              \* chunks delivered by the recorder so far
  sendLog,               \* sequences handed to sendFunction, in call order
  delivered,             \* sequences whose submission succeeded
  failed,                \* sequences whose submission failed
  staleInFlight,         \* frames that were in flight when stop() was called
  metricsReport,         \* the calls of metricsCallback the last step made
  sessionsEnded,         \* TRUE: stop() has ended a session of this encoder
  sessionFirst,          \* sequence of the first frame cut in the running session
  traceFraming,          \* TRUE: capturedBytes and framedBytes are recorded
  capturedBytes,         \* the bytes pushed to audioChunks so far, in order
  framedBytes            \* the bytes of all frames cut so far, in order

encoderVars == <<isRecording, sendFunction, encProcessingInterval,
                 batchingInterval, orphanedStarts, startsPending,
                 recorderActive, recorderFlush, audioChunks, frameQueue,
                 sequence, totalBatchesSent, totalBytesTransmitted, inFlight,
                 captured, sendLog, delivered, failed, metricsCallback,
                 lastLatency, staleInFlight, metricsReport, sessionsEnded,
                 sessionFirst, traceFraming, capturedBytes, framedBytes>>

\* milliseconds between the call of sendFunction and its result
\* (endTime - startTime)
Latencies == {15}

\* all chunks in one buffer (combinedData)
RECURSIVE Combine(_)
Combine(chunks) ==
  IF chunks = <<>> THEN <<>> ELSE Head(chunks) \o Combine(Tail(chunks))

\* the frames processAudioChunks cuts from combinedData, numbered from seq
SplitFrames(combinedData, seq) ==
  [i \in 1..Floor(Len(combinedData), FRAME_SIZE) |->
     [sequence |-> seq + (i - 1),
      data |-> Slice(combinedData, (i - 1) * FRAME_SIZE, i * FRAME_SIZE)]]

\* mutant of Shift: takes the newest frame of the queue
Shift_Pop(queue) ==
  [frame |-> queue[Len(queue)], queue |-> SubSeq(queue, 1, Len(queue) - 1)]

\* frameQueue.shift(): the oldest frame and the queue without it
Shift(queue) ==
  [frame |-> Head(queue), queue |-> Tail(queue)]

\* mutant of OnSendFailure: the failed frame goes back to the head of the queue
OnSendFailure_Requeue(queue, frame) == <<frame>> \o queue

\* the catch block of flushFrameQueue: logs and rethrows, the queue stays
OnSendFailure(queue, frame) == queue

\* start(sendFunction, metricsCallback) up to "await getUserMedia";
\* callback: the optional metricsCallback is given
EncoderStartBegin(callback) ==
  /\ ~isRecording
  /\ startsPending + orphanedStarts < MaxPendingStarts
  /\ sendFunction' = TRUE
  /\ metricsCallback' = callback
  /\ frameQueue' = <<>>
  /\ totalBatchesSent' = 0
  /\ totalBytesTransmitted' = 0
  /\ lastLatency' = 0
  /\ startsPending' = startsPending + 1
  /\ UNCHANGED <<traceFraming, capturedBytes, framedBytes>>
  /\ metricsReport' = <<>>
  /\ UNCHANGED <<isRecording, encProcessingInterval, batchingInterval,
                 orphanedStarts, recorderActive, recorderFlush, audioChunks,
                 sequence, inFlight, captured, sendLog, delivered, failed,
                 staleInFlight, sessionsEnded, sessionFirst>>

\* getUserMedia rejects: start() logs and rethrows
EncoderStartDenied ==
  /\ startsPending > 0
  /\ startsPending' = startsPending - 1
  /\ UNCHANGED <<traceFraming, capturedBytes, framedBytes>>
  /\ metricsReport' = <<>>
  /\ UNCHANGED <<metricsCallback, lastLatency, staleInFlight, sessionsEnded,
                 sessionFirst>>
  /\ UNCHANGED <<isRecording, sendFunction, encProcessingInterval,
                 batchingInterval, orphanedStarts, recorderActive,
                 recorderFlush, audioChunks, frameQueue, sequence,
                 totalBatchesSent, totalBytesTransmitted, inFlight, captured,
                 sendLog, delivered, failed>>

\* getUserMedia resolves: the rest of start()
EncoderStartGranted ==
  /\ startsPending > 0
  /\ startsPending' = startsPending - 1
  /\ orphanedStarts' = IF recorderActive \/ encProcessingInterval
                       THEN orphanedStarts + 1 ELSE orphanedStarts
  /\ recorderActive' = TRUE
  /\ encProcessingInterval' = TRUE
  /\ batchingInterval' = TRUE
  /\ isRecording' = TRUE
  /\ sessionFirst' = IF isRecording THEN sessionFirst ELSE NULL
  /\ UNCHANGED <<traceFraming, capturedBytes, framedBytes>>
  /\ metricsReport' = <<>>
  /\ UNCHANGED <<metricsCallback, lastLatency, staleInFlight, sessionsEnded>>
  /\ UNCHANGED <<sendFunction, recorderFlush, audioChunks, frameQueue,
                 sequence, totalBatchesSent, totalBytesTransmitted, inFlight,
                 captured, sendLog, delivered, failed>>

\* mediaRecorder.ondataavailable and the arrayBuffer() that follows it
DataAvailable(size) ==
  /\ recorderActive \/ recorderFlush \/ orphanedStarts > 0
  /\ captured < MaxChunks
  /\ audioChunks' = Append(audioChunks, [j \in 1..size |-> captured])
  /\ captured' = captured + 1
  /\ recorderFlush' = FALSE
  /\ capturedBytes' = IF traceFraming
                      THEN capturedBytes \o [j \in 1..size |-> captured]
                      ELSE <<>>
  /\ UNCHANGED <<traceFraming, framedBytes>>
  /\ metricsReport' = <<>>
  /\ UNCHANGED <<metricsCallback, lastLatency, staleInFlight, sessionsEnded,
                 sessionFirst>>
  /\ UNCHANGED <<isRecording, sendFunction, encProcessingInterval,
                 batchingInterval, orphanedStarts, startsPending,
                 recorderActive, frameQueue, sequence, totalBatchesSent,
                 totalBytesTransmitted, inFlight, sendLog, delivered, failed>>

\* a processing timer fires: processAudioChunks()
ProcessAudioChunks ==
  /\ encProcessingInterval \/ orphanedStarts > 0
  /\ IF ~isRecording \/ ~sendFunction \/ Len(audioChunks) = 0
     THEN UNCHANGED <<audioChunks, frameQueue, sequence, sessionFirst>>
     ELSE LET frames == SplitFrames(Combine(audioChunks), sequence)
          IN /\ audioChunks' = <<>>
             /\ frameQueue' = frameQueue \o frames
             /\ sequence' = sequence + Len(frames)
             /\ sessionFirst' = IF sessionFirst = NULL /\ Len(frames) > 0
                                THEN sequence ELSE sessionFirst
  /\ framedBytes' =
       IF traceFraming /\ isRecording /\ sendFunction /\ Len(audioChunks) > 0
       THEN framedBytes \o
              Combine([i \in 1..(Len(frameQueue') - Len(frameQueue)) |->
                         frameQueue'[Len(frameQueue) + i].data])
       ELSE framedBytes
  /\ UNCHANGED <<traceFraming, capturedBytes>>
  /\ metricsReport' = <<>>
  /\ UNCHANGED <<metricsCallback, lastLatency, staleInFlight, sessionsEnded>>
  /\ UNCHANGED <<isRecording, sendFunction, encProcessingInterval,
                 batchingInterval, orphanedStarts, startsPending,
                 recorderActive, recorderFlush, totalBatchesSent,
                 totalBytesTransmitted, inFlight, captured, sendLog,
                 delivered, failed>>

\* mutant of FlushFrameQueue: no tick submits once a submission has failed
FlushFrameQueue_AfterFailure ==
  /\ batchingInterval \/ orphanedStarts > 0
  /\ IF ~isRecording \/ ~sendFunction \/ Len(frameQueue) = 0 \/ failed # {}
     THEN UNCHANGED <<frameQueue, inFlight, sendLog>>
     ELSE LET r == Shift(frameQueue)
          IN /\ frameQueue' = r.queue
             /\ inFlight' = inFlight \cup {r.frame}
             /\ sendLog' = Append(sendLog, r.frame.sequence)
  /\ UNCHANGED <<traceFraming, capturedBytes, framedBytes>>
  /\ metricsReport' = <<>>
  /\ UNCHANGED <<metricsCallback, lastLatency, staleInFlight, sessionsEnded,
                 sessionFirst>>
  /\ UNCHANGED <<isRecording, sendFunction, encProcessingInterval,
                 batchingInterval, orphanedStarts, startsPending,
                 recorderActive, recorderFlush, audioChunks, sequence,
                 totalBatchesSent, totalBytesTransmitted, captured, delivered,
                 failed>>

\* mutant of FlushFrameQueue: a tick waits while a submission is in flight
FlushFrameQueue_Waits ==
  /\ batchingInterval \/ orphanedStarts > 0
  /\ IF ~isRecording \/ ~sendFunction \/ Len(frameQueue) = 0 \/ inFlight # {}
     THEN UNCHANGED <<frameQueue, inFlight, sendLog>>
     ELSE LET r == Shift(frameQueue)
          IN /\ frameQueue' = r.queue
             /\ inFlight' = inFlight \cup {r.frame}
             /\ sendLog' = Append(sendLog, r.frame.sequence)
  /\ UNCHANGED <<traceFraming, capturedBytes, framedBytes>>
  /\ metricsReport' = <<>>
  /\ UNCHANGED <<metricsCallback, lastLatency, staleInFlight, sessionsEnded,
                 sessionFirst>>
  /\ UNCHANGED <<isRecording, sendFunction, encProcessingInterval,
                 batchingInterval, orphanedStarts, startsPending,
                 recorderActive, recorderFlush, audioChunks, sequence,
                 totalBatchesSent, totalBytesTransmitted, captured, delivered,
                 failed>>


\* a batching timer fires: flushFrameQueue() up to "await sendFunction(frame)"
FlushFrameQueue ==
  /\ batchingInterval \/ orphanedStarts > 0
  /\ IF ~isRecording \/ ~sendFunction \/ Len(frameQueue) = 0
     THEN UNCHANGED <<frameQueue, inFlight, sendLog>>
     ELSE LET r == Shift(frameQueue)
          IN /\ frameQueue' = r.queue
             /\ inFlight' = inFlight \cup {r.frame}
             /\ sendLog' = Append(sendLog, r.frame.sequence)
  /\ UNCHANGED <<traceFraming, capturedBytes, framedBytes>>
  /\ metricsReport' = <<>>
  /\ UNCHANGED <<metricsCallback, lastLatency, staleInFlight, sessionsEnded,
                 sessionFirst>>
  /\ UNCHANGED <<isRecording, sendFunction, encProcessingInterval,
                 batchingInterval, orphanedStarts, startsPending,
                 recorderActive, recorderFlush, audioChunks, sequence,
                 totalBatchesSent, totalBytesTransmitted, captured, delivered,
                 failed>>

\* the promise of sendFunction resolves after `latency` ms: the rest of
\* flushFrameQueue
SendResolves(frame, latency) ==
  /\ frame \in inFlight
  /\ inFlight' = inFlight \ {frame}
  /\ lastLatency' = latency
  /\ totalBatchesSent' = totalBatchesSent + 1
  /\ totalBytesTransmitted' = totalBytesTransmitted + Len(frame.data)
  /\ UNCHANGED <<traceFraming, capturedBytes, framedBytes>>
  /\ metricsReport' = IF metricsCallback
                      THEN <<[batchesSent |-> totalBatchesSent',
                              bytesTransmitted |-> totalBytesTransmitted',
                              lastLatency |-> lastLatency']>>
                      ELSE <<>>
  /\ delivered' = delivered \cup {frame.sequence}
  /\ staleInFlight' = staleInFlight \ {frame}
  /\ UNCHANGED <<metricsCallback, sessionsEnded, sessionFirst>>
  /\ UNCHANGED <<isRecording, sendFunction, encProcessingInterval,
                 batchingInterval, orphanedStarts, startsPending,
                 recorderActive, recorderFlush, audioChunks, frameQueue,
                 sequence, captured, sendLog, failed>>

\* mutant of SendRejects: a failed submission ends the pacing
SendRejects_Halts(frame) ==
  /\ frame \in inFlight
  /\ inFlight' = inFlight \ {frame}
  /\ frameQueue' = OnSendFailure(frameQueue, frame)
  /\ failed' = failed \cup {frame.sequence}
  /\ staleInFlight' = staleInFlight \ {frame}
  /\ UNCHANGED <<traceFraming, capturedBytes, framedBytes>>
  /\ metricsReport' = <<>>
  /\ batchingInterval' = FALSE
  /\ UNCHANGED <<metricsCallback, lastLatency, sessionsEnded, sessionFirst>>
  /\ UNCHANGED <<isRecording, sendFunction, encProcessingInterval,
                 orphanedStarts, startsPending,
                 recorderActive, recorderFlush, audioChunks, sequence,
                 totalBatchesSent, totalBytesTransmitted, captured, sendLog,
                 delivered>>

\* the promise of sendFunction rejects: the catch block of flushFrameQueue
SendRejects(frame) ==
  /\ frame \in inFlight
  /\ inFlight' = inFlight \ {frame}
  /\ frameQueue' = OnSendFailure(frameQueue, frame)
  /\ failed' = failed \cup {frame.sequence}
  /\ staleInFlight' = staleInFlight \ {frame}
  /\ UNCHANGED <<traceFraming, capturedBytes, framedBytes>>
  /\ metricsReport' = <<>>
  /\ UNCHANGED <<metricsCallback, lastLatency, sessionsEnded, sessionFirst>>
  /\ UNCHANGED <<isRecording, sendFunction, encProcessingInterval,
                 batchingInterval, orphanedStarts, startsPending,
                 recorderActive, recorderFlush, audioChunks, sequence,
                 totalBatchesSent, totalBytesTransmitted, captured, sendLog,
                 delivered>>

\* OpusEncoder.stop()
EncoderStop ==
  /\ isRecording
  /\ encProcessingInterval' = FALSE
  /\ batchingInterval' = FALSE
  /\ recorderFlush' = (recorderActive \/ recorderFlush)
  /\ recorderActive' = FALSE
  /\ frameQueue' = <<>>
  /\ isRecording' = FALSE
  /\ sendFunction' = FALSE
  /\ metricsCallback' = FALSE
  /\ staleInFlight' = staleInFlight \cup inFlight
  /\ sessionsEnded' = TRUE
  /\ UNCHANGED <<traceFraming, capturedBytes, framedBytes>>
  /\ metricsReport' = <<>>
  /\ sessionFirst' = NULL
  /\ UNCHANGED lastLatency
  /\ UNCHANGED <<orphanedStarts, startsPending, audioChunks, sequence,
                 totalBatchesSent, totalBytesTransmitted, inFlight, captured,
                 sendLog, delivered, failed>>

EncoderInit ==
  /\ isRecording = FALSE
  /\ sendFunction = FALSE
  /\ encProcessingInterval = FALSE
  /\ batchingInterval = FALSE
  /\ orphanedStarts = 0
  /\ startsPending = 0
  /\ recorderActive = FALSE
  /\ recorderFlush = FALSE
  /\ audioChunks = <<>>
  /\ frameQueue = <<>>
  /\ sequence = 0
  /\ totalBatchesSent = 0
  /\ totalBytesTransmitted = 0
  /\ inFlight = {}
  /\ captured = 0
  /\ sendLog = <<>>
  /\ delivered = {}
  /\ failed = {}
  /\ metricsCallback = FALSE
  /\ lastLatency = 0
  /\ staleInFlight = {}
  /\ metricsReport = <<>>
  /\ sessionsEnded = FALSE
  /\ sessionFirst = NULL
  /\ traceFraming \in BOOLEAN
  /\ capturedBytes = <<>>
  /\ framedBytes = <<>>

EncoderNext ==
  \/ \E callback \in BOOLEAN : EncoderStartBegin(callback)
  \/ EncoderStartDenied
  \/ EncoderStartGranted
  \/ \E size \in ChunkSizes : DataAvailable(size)
  \/ ProcessAudioChunks
  \/ FlushFrameQueue
  \/ \E frame \in inFlight, latency \in Latencies : SendResolves(frame, latency)
  \/ \E frame \in inFlight : SendRejects(frame)
  \/ EncoderStop

(***************************************************************************)
(* The submitter with a local nonce tracker (sendAudioBatch, refreshNonce) *)
(***************************************************************************)
\* "Refresh nonce from chain every 10 transactions"
NONCE_REFRESH_INTERVAL == 10

\* sendAudioBatch calls in one run
MaxSubmissions == 11
\* getTransactionCount requests in flight at a time
MaxRefreshes == 2
\* transactions of the same account issued by another client
MaxExternalTxs == 1

VARIABLES
  \* ---- nonce tracker
  currentNonce,
  transactionCount,
  refreshes,         \* getTransactionCount requests in flight: awaited by a
                     \* sendAudioBatch call or not, answered with a value or not
  \* ---- the ledger
  chainNonce,        \* the account's transaction count on the ledger
  mempool,           \* nonces of submitted transactions not yet included
  externalTxs,
  \* ---- observation
  nonceCalls,        \* sendAudioBatch calls so far
  nonceLog           \* nonces assigned to submissions (useNonce), in order

nonceVars == <<currentNonce, transactionCount, refreshes, chainNonce, mempool,
               externalTxs, nonceCalls, nonceLog>>

\* a sequence without its i-th element
RemoveAt(q, i) == SubSeq(q, 1, i - 1) \o SubSeq(q, i + 1, Len(q))

\* sendAudioBatch from "const useNonce = currentNonce" to the background
\* refresh, on a tracker whose currentNonce is cur; the transaction signed
\* with useNonce is then submitted
AssignNonce(cur, pendingRefreshes) ==
  LET useNonce == cur
      count == transactionCount + 1
  IN /\ currentNonce' = cur + 1
     /\ nonceLog' = Append(nonceLog, useNonce)
     /\ mempool' = mempool \cup {useNonce}
     /\ IF count >= NONCE_REFRESH_INTERVAL
        THEN /\ refreshes' = Append(pendingRefreshes, [awaited |-> FALSE, value |-> NULL])
             /\ transactionCount' = 0
        ELSE /\ refreshes' = pendingRefreshes
             /\ transactionCount' = count

\* a call of sendAudioBatch, up to its first await
SendAudioBatch ==
  /\ nonceCalls < MaxSubmissions
  /\ Len(refreshes) < MaxRefreshes
  /\ nonceCalls' = nonceCalls + 1
  /\ IF currentNonce = NULL
     THEN /\ refreshes' = Append(refreshes, [awaited |-> TRUE, value |-> NULL])
          /\ UNCHANGED <<currentNonce, transactionCount, mempool, nonceLog>>
     ELSE AssignNonce(currentNonce, refreshes)
  /\ UNCHANGED <<chainNonce, externalTxs>>

\* the node answers a getTransactionCount request
RefreshServed(i) ==
  /\ refreshes[i].value = NULL
  /\ refreshes' = [refreshes EXCEPT ![i].value = chainNonce]
  /\ UNCHANGED <<currentNonce, transactionCount, chainNonce, mempool,
                 externalTxs, nonceCalls, nonceLog>>

\* the answer arrives: refreshNonce sets currentNonce; a sendAudioBatch call
\* that awaited it goes on
RefreshCompletes(i) ==
  /\ refreshes[i].value # NULL
  /\ IF refreshes[i].awaited
     THEN AssignNonce(refreshes[i].value, RemoveAt(refreshes, i))
     ELSE /\ currentNonce' = refreshes[i].value
          /\ refreshes' = RemoveAt(refreshes, i)
          /\ UNCHANGED <<transactionCount, mempool, nonceLog>>
  /\ UNCHANGED <<chainNonce, externalTxs, nonceCalls>>

\* the request fails: refreshNonce returns currentNonce when it has one and
\* throws otherwise (the awaiting call rejects, a background refresh logs)
RefreshFails(i) ==
  /\ IF refreshes[i].awaited /\ currentNonce # NULL
     THEN AssignNonce(currentNonce, RemoveAt(refreshes, i))
     ELSE /\ refreshes' = RemoveAt(refreshes, i)
          /\ UNCHANGED <<currentNonce, transactionCount, mempool, nonceLog>>
  /\ UNCHANGED <<chainNonce, externalTxs, nonceCalls>>

\* the ledger includes the submitted transaction that carries its next nonce
ChainIncludes ==
  /\ chainNonce \in mempool
  /\ chainNonce' = chainNonce + 1
  /\ mempool' = mempool \ {chainNonce}
  /\ UNCHANGED <<currentNonce, transactionCount, refreshes, externalTxs,
                 nonceCalls, nonceLog>>

\* another client of the same account gets a transaction included
ExternalTx ==
  /\ externalTxs < MaxExternalTxs
  /\ externalTxs' = externalTxs + 1
  /\ chainNonce' = chainNonce + 1
  /\ mempool' = mempool \ {chainNonce}
  /\ UNCHANGED <<currentNonce, transactionCount, refreshes, nonceCalls, nonceLog>>

NonceInit ==
  /\ currentNonce = NULL
  /\ transactionCount = 0
  /\ refreshes = <<>>
  /\ chainNonce = 0
  /\ mempool = {}
  /\ externalTxs = 0
  /\ nonceCalls = 0
  /\ nonceLog = <<>>

NonceNext ==
  \/ SendAudioBatch
  \/ \E i \in 1..Len(refreshes) : RefreshServed(i)
  \/ \E i \in 1..Len(refreshes) : RefreshCompletes(i)
  \/ \E i \in 1..Len(refreshes) : RefreshFails(i)
  \/ ChainIncludes
  \/ ExternalTx

(***************************************************************************)
(* sendRawTransaction: submission with bounded retries                     *)
(***************************************************************************)
\* default of maxRetries and the first backoff in milliseconds
DEFAULT_MAX_RETRIES == 3
INITIAL_BACKOFF_MS == 100

\* largest maxRetries a caller passes
MaxRetriesArg == 3

\* what an error message contains, as far as sendRawTransaction looks
RetryableMarkers == {"503", "429", "temporarily unavailable", "intrinsic gas too low"}
ErrorMessages ==
  {{}, {"nonce"}, {"503"}, {"429"}, {"temporarily unavailable"},
   {"intrinsic gas too low"}, {"nonce", "intrinsic gas too low"}}

VARIABLES
  \* ---- one call of sendRawTransaction
  rawPhase,          \* "idle", "requesting", "backoff", "resolved", "rejected"
  maxRetries,
  waitForResponse,
  retryCount,        \* argument of the current attemptRequest
  backoffMs,         \* argument of the current attemptRequest
  rawBackground,     \* TRUE: a request goes on after the promise was resolved
  rawOutcome,        \* "", "hash", "estimated hash", "max retries", "nonce", "error"
  rawError,          \* what the message of the last failed request contains
  \* ---- observation
  requestsIssued     \* eth_sendRawTransaction requests of the call

rawVars == <<rawPhase, maxRetries, waitForResponse, retryCount, backoffMs,
             rawBackground, rawOutcome, rawError, requestsIssued>>

\* the message contains one of the markers of a transient failure
IsRetryable(msg) == msg \cap RetryableMarkers # {}

\* mutant of MayRetry: one more retry than maxRetries
MayRetry_Inclusive(count, limit) == count <= limit

\* "if (retryCount < maxRetries)"
MayRetry(count, limit) == count < limit

\* sendRawTransaction(signedTx, maxRetries, waitForResponse): the executor of
\* the promise calls attemptRequest(0, initialBackoffMs)
SendRawTransaction(retries, wait) ==
  /\ rawPhase = "idle"
  /\ maxRetries' = retries
  /\ waitForResponse' = wait
  /\ retryCount' = 0
  /\ backoffMs' = INITIAL_BACKOFF_MS
  /\ requestsIssued' = 1
  /\ UNCHANGED rawError
  /\ IF wait
     THEN /\ rawPhase' = "requesting"
          /\ UNCHANGED <<rawBackground, rawOutcome>>
     ELSE /\ rawPhase' = "resolved"
          /\ rawOutcome' = "estimated hash"
          /\ rawBackground' = TRUE

\* the request of a call that does not wait completes, either way
BackgroundCompletes ==
  /\ rawBackground
  /\ rawBackground' = FALSE
  /\ UNCHANGED <<rawPhase, maxRetries, waitForResponse, retryCount, backoffMs,
                 rawOutcome, rawError, requestsIssued>>

\* the request succeeds: resolve(hash)
RequestSucceeds ==
  /\ rawPhase = "requesting"
  /\ rawPhase' = "resolved"
  /\ rawOutcome' = "hash"
  /\ UNCHANGED <<maxRetries, waitForResponse, retryCount, backoffMs,
                 rawBackground, rawError, requestsIssued>>

\* the request fails with message msg: the catch handler
RequestFails(msg) ==
  /\ rawPhase = "requesting"
  /\ rawError' = msg
  /\ IF IsRetryable(msg)
     THEN IF MayRetry(retryCount, maxRetries)
          THEN /\ rawPhase' = "backoff"
               /\ UNCHANGED rawOutcome
          ELSE /\ rawPhase' = "rejected"
               /\ rawOutcome' = "max retries"
     ELSE IF "nonce" \in msg
          THEN /\ rawPhase' = "rejected"
               /\ rawOutcome' = "nonce"
          ELSE /\ rawPhase' = "rejected"
               /\ rawOutcome' = "error"
  /\ UNCHANGED <<maxRetries, waitForResponse, retryCount, backoffMs,
                 rawBackground, requestsIssued>>

\* the timer of setTimeout fires: attemptRequest(retryCount + 1, backoffMs * 2)
BackoffElapsed ==
  /\ rawPhase = "backoff"
  /\ retryCount' = retryCount + 1
  /\ backoffMs' = backoffMs * 2
  /\ requestsIssued' = requestsIssued + 1
  /\ rawPhase' = "requesting"
  /\ UNCHANGED <<maxRetries, waitForResponse, rawBackground, rawOutcome, rawError>>

RequestCompletes ==
  \/ RequestSucceeds
  \/ \E msg \in ErrorMessages : RequestFails(msg)

RawInit ==
  /\ rawPhase = "idle"
  /\ maxRetries = DEFAULT_MAX_RETRIES
  /\ waitForResponse = TRUE
  /\ retryCount = 0
  /\ backoffMs = INITIAL_BACKOFF_MS
  /\ rawBackground = FALSE
  /\ rawOutcome = ""
  /\ rawError = {}
  /\ requestsIssued = 0

RawNext ==
  \/ \E retries \in 0..MaxRetriesArg, wait \in BOOLEAN : SendRawTransaction(retries, wait)
  \/ BackgroundCompletes
  \/ RequestCompletes
  \/ BackoffElapsed

(***************************************************************************)
(* Listener page: startListening, stopListening, handleAudioBatch          *)
(***************************************************************************)
\* startListening calls that wait for listenToAudioBatches, and pollers they
\* started, at one time
MaxListenStarts == 2

VARIABLES
  isListening,
  statusMessage,
  unsubscribe,       \* TRUE: the unsubscribe state holds a function
  statsIntervalRef,  \* TRUE: statsIntervalRef.current holds a timer
  subscribing,       \* startListening calls waiting for listenToAudioBatches
  subscriptions,     \* pollers of the ledger's event feed that are running
  listenerChannelId, \* the channelId state of the page
  shownPacketsPlayed,\* the packetsPlayed state of the page
  shownPacketsLost,  \* the packetsLost state of the page
  keccakFeed,        \* TRUE: the build whose listenToAudioBatches hashes the
                     \* channel with keccak256
  lastBatch          \* what the last handleAudioBatch of the session did

listenerVars == <<isListening, statusMessage, unsubscribe, statsIntervalRef,
                  subscribing, subscriptions, listenerChannelId,
                  shownPacketsPlayed, shownPacketsLost, keccakFeed, lastBatch>>

\* the channel of the page (the page has no control that changes it)
DefaultChannel == "hello-megaeth"

\* keccak256(stringToHex(str)) as a hex string
Keccak256Hex(str) ==
  CASE str = "hello-megaeth" ->
         "0x57581707e2730f2f39309f2babcc55d982630b59095216eb75b9702bb8d7d1dd"
    [] str = "abc" ->
         "0x4e03657aea45a94fc7d47ba826c8d667c0d1e6e33a64a036ec44f58fa12d6c45"
    [] str = "" ->
         "0xc5d2460186f7233c927e7db2dcc703c0e500b653ca82273b7bfad8045d85a470"

\* the channelId field of the batches listenToAudioBatches(str, ...) hands
\* to its callback
FeedChannelId(keccak, str) == IF keccak THEN Keccak256Hex(str) ELSE str

\* "await player.start()" of startListening: nothing when the player plays
EnsurePlayerStarted ==
  IF isPlaying THEN UNCHANGED playerVars ELSE PlayerStart

\* "player.stop()" of stopListening: nothing when the player is stopped
EnsurePlayerStopped ==
  IF isPlaying THEN PlayerStop ELSE UNCHANGED playerVars

\* startListening up to "await listenToAudioBatches": the button is shown
\* while isListening is false
StartListening ==
  /\ ~isListening
  /\ subscribing + subscriptions < MaxListenStarts
  /\ EnsurePlayerStarted
  /\ subscribing' = subscribing + 1
  /\ shownPacketsPlayed' = 0
  /\ shownPacketsLost' = 0
  /\ lastBatch' = "none"
  /\ UNCHANGED <<isListening, statusMessage, unsubscribe, statsIntervalRef,
                 subscriptions, listenerChannelId, keccakFeed>>

\* startListening when player.start() throws: the catch block
StartListeningPlayerFails ==
  /\ ~isListening
  /\ ~isPlaying
  /\ PlayerStartFails
  /\ shownPacketsPlayed' = 0
  /\ shownPacketsLost' = 0
  /\ statusMessage' = "Error starting listener"
  /\ UNCHANGED <<isListening, unsubscribe, statsIntervalRef, subscribing,
                 subscriptions, listenerChannelId, keccakFeed, lastBatch>>

\* listenToAudioBatches resolves: the rest of the try block
SubscribeResolves ==
  /\ subscribing > 0
  /\ subscribing' = subscribing - 1
  /\ subscriptions' = subscriptions + 1
  /\ unsubscribe' = TRUE
  /\ isListening' = TRUE
  /\ statusMessage' = "LISTENING"
  /\ statsIntervalRef' = TRUE
  /\ UNCHANGED <<listenerChannelId, shownPacketsPlayed, shownPacketsLost,
                 keccakFeed, lastBatch>>
  /\ UNCHANGED playerVars

\* listenToAudioBatches rejects: the catch block
SubscribeRejects ==
  /\ subscribing > 0
  /\ subscribing' = subscribing - 1
  /\ statusMessage' = "Error starting listener"
  /\ UNCHANGED <<isListening, unsubscribe, statsIntervalRef, subscriptions,
                 listenerChannelId, shownPacketsPlayed, shownPacketsLost,
                 keccakFeed, lastBatch>>
  /\ UNCHANGED playerVars

\* stopListening: the button is shown while isListening is true
StopListening ==
  /\ isListening
  /\ EnsurePlayerStopped
  /\ subscriptions' = IF unsubscribe THEN subscriptions - 1 ELSE subscriptions
  /\ unsubscribe' = FALSE
  /\ isListening' = FALSE
  /\ statusMessage' = "Call Ended"
  /\ statsIntervalRef' = FALSE
  /\ UNCHANGED <<subscribing, listenerChannelId, shownPacketsPlayed,
                 shownPacketsLost, keccakFeed, lastBatch>>

\* handleAudioBatch, called by a running poller with a batch of the channel
\* the page listens to
HandleAudioBatch(seqStart, count, payload) ==
  /\ subscriptions > 0
  /\ IF FeedChannelId(keccakFeed, listenerChannelId) # listenerChannelId
     THEN /\ lastBatch' = "discarded"
          /\ UNCHANGED statusMessage
          /\ UNCHANGED playerVars
     ELSE /\ ProcessBatch(seqStart, count, payload)
          /\ statusMessage' = "LISTENING"
          /\ lastBatch' = "passed"
  /\ UNCHANGED <<isListening, unsubscribe, statsIntervalRef, subscribing,
                 subscriptions, listenerChannelId, shownPacketsPlayed,
                 shownPacketsLost, keccakFeed>>

\* mutant of ReportStats: the statistics timer also runs processFrames
ReportStats_Drains ==
  /\ statsInterval
  /\ shownPacketsPlayed' = packetsPlayed
  /\ shownPacketsLost' = packetsLost
  /\ ProcessFramesTick
  /\ UNCHANGED <<isListening, statusMessage, unsubscribe, statsIntervalRef,
                 subscribing, subscriptions, listenerChannelId, keccakFeed,
                 lastBatch>>

\* the player's 500 ms timer: onStatsUpdate of the page
ReportStats ==
  /\ statsInterval
  /\ shownPacketsPlayed' = packetsPlayed
  /\ shownPacketsLost' = packetsLost
  /\ UNCHANGED <<isListening, statusMessage, unsubscribe, statsIntervalRef,
                 subscribing, subscriptions, listenerChannelId, keccakFeed,
                 lastBatch>>
  /\ UNCHANGED playerVars

\* the player's 10 ms timer during a listening session
ListenerProcessFrames ==
  /\ ProcessFramesTick
  /\ UNCHANGED listenerVars

ListenerInit ==
  /\ isListening = FALSE
  /\ statusMessage = ""
  /\ unsubscribe = FALSE
  /\ statsIntervalRef = FALSE
  /\ subscribing = 0
  /\ subscriptions = 0
  /\ listenerChannelId = DefaultChannel
  /\ shownPacketsPlayed = 0
  /\ shownPacketsLost = 0
  /\ keccakFeed \in BOOLEAN
  /\ lastBatch = "none"

ListenerNext(inputs) ==
  \/ ReportStats
  \/ StartListening
  \/ StartListeningPlayerFails
  \/ SubscribeResolves
  \/ SubscribeRejects
  \/ StopListening
  \/ \E b \in inputs : HandleAudioBatch(b.seqStart, b.count, b.payload)
  \/ ListenerProcessFrames

(***************************************************************************)
(* Channel keys: stringToBytes32 on the sending and on the listening side  *)
(***************************************************************************)
\* "Create a padded byte array (32 bytes)"
KEY_BYTES == 32
\* bytes that follow the common part of two channel strings
MaxSuffix == 2

\* the UTF-8 bytes of the characters of a channel string: U+0000, "a", "b"
ChannelChars == {0, 97, 98}
\* the strings of at most n bytes over ChannelChars
StringsUpTo(n) ==
  UNION {[1..k -> ChannelChars] : k \in 0..n}
\* channel strings a user enters: short ones, and long ones that share their
\* first KEY_BYTES - 1 bytes
ChannelStrings ==
  {str \in StringsUpTo(MaxSuffix) : str # <<>>}
    \cup {[i \in 1..(KEY_BYTES - 1) |-> 97] \o suffix : suffix \in StringsUpTo(MaxSuffix)}

VARIABLES
  broadcastChannel,  \* channel string of the last sendAudioBatch
  broadcastKey,      \* channelId of the Batch event it caused
  listenChannel,     \* channel string given to listenToAudioBatches
  listenKey,         \* bytes32ChannelId of the poller
  channelDelivered   \* TRUE: the poller called the callback for the event

channelVars == <<broadcastChannel, broadcastKey, listenChannel, listenKey,
                 channelDelivered>>

\* stringToBytes32(str): the first 32 bytes of the encoded string, padded
\* with zero bytes, as hex digits
StringToBytes32(str) ==
  LET bytes == SubSeq(str, 1, Min({Len(str), KEY_BYTES}))
      paddedBytes == [i \in 1..KEY_BYTES |-> IF i <= Len(bytes) THEN bytes[i] ELSE 0]
  IN ToHex(paddedBytes)

\* sendAudioBatch(.., channelId, ..): the Batch event carries the key
ChannelBroadcast(channelId) ==
  /\ broadcastChannel' = channelId
  /\ broadcastKey' = StringToBytes32(channelId)
  /\ channelDelivered' = FALSE
  /\ UNCHANGED <<listenChannel, listenKey>>

\* listenToAudioBatches(channelId, callback): a new poller
ChannelListen(channelId) ==
  /\ listenChannel' = channelId
  /\ listenKey' = StringToBytes32(channelId)
  /\ channelDelivered' = FALSE
  /\ UNCHANGED <<broadcastChannel, broadcastKey>>

\* the poller's getLogs and processLog: the callback is called when the
\* event's channelId is the poller's key
ChannelPoll ==
  /\ broadcastKey # <<>>
  /\ listenKey # <<>>
  /\ channelDelivered' = (broadcastKey = listenKey)
  /\ UNCHANGED <<broadcastChannel, broadcastKey, listenChannel, listenKey>>

ChannelInit ==
  /\ broadcastChannel = <<>>
  /\ broadcastKey = <<>>
  /\ listenChannel = <<>>
  /\ listenKey = <<>>
  /\ channelDelivered = FALSE

ChannelNext ==
  \/ \E channelId \in ChannelStrings : ChannelBroadcast(channelId)
  \/ \E channelId \in ChannelStrings : ChannelListen(channelId)
  \/ ChannelPoll

(***************************************************************************)
(* OnchainBroadcast.sendBatch as a transaction of its own                  *)
(***************************************************************************)
\* payload lengths in bytes: empty, short of a frame, the three frames of
\* the test, a byte more, and the first frame count above uint8
ContractPayloadLengths ==
  {0, FRAME_SIZE - 1, 3 * FRAME_SIZE, 3 * FRAME_SIZE + 1,
   (UINT8_MAX + 1) * FRAME_SIZE}
\* channel keys of the callers
ContractChannelIds == {StringToBytes32(<<97>>), StringToBytes32(<<98>>)}

VARIABLES
  contractPhase,  \* "idle", "called" (transaction submitted), "emitted"
  contractCall,   \* arguments of the sendBatch call
  contractLog     \* the events the transaction emitted

contractVars == <<contractPhase, contractCall, contractLog>>

\* a transaction that calls sendBatch(channelId, seqStart, frames); one
\* transaction is followed per run
SendBatchCall(channelId, seqStart, frames) ==
  /\ contractPhase = "idle"
  /\ contractCall' = [channelId |-> channelId, seqStart |-> seqStart,
                      frames |-> frames]
  /\ contractPhase' = "called"
  /\ UNCHANGED contractLog

\* the body of sendBatch
SendBatch ==
  /\ contractPhase = "called"
  /\ LET count == ContractCount(Len(contractCall.frames))
     IN contractLog' = Append(contractLog,
                              [channelId |-> contractCall.channelId,
                               seqStart |-> contractCall.seqStart,
                               count |-> count,
                               payload |-> contractCall.frames])
  /\ contractPhase' = "emitted"
  /\ UNCHANGED contractCall

ContractInit ==
  /\ contractPhase = "idle"
  /\ contractCall = <<>>
  /\ contractLog = <<>>

ContractNext ==
  \/ \E channelId \in ContractChannelIds, seqStart \in WireSeqStarts,
        len \in ContractPayloadLengths, g \in 0..1 :
       SendBatchCall(channelId, seqStart, SubSeq(Pattern(g, WirePeriod, len), 1, len))
  \/ SendBatch

(***************************************************************************)
(* The Broadcaster page: the submission nonce of sendAudioToBlockchain     *)
(***************************************************************************)
\* submissions of one broadcasting session
MaxBroadcasts == 4
\* transactions the wallet's account sends from elsewhere
MaxWalletTxs == 2

VARIABLES
  nonceReady,
  nonceRef,          \* nonce.current
  ledgerNonce,       \* transaction count of the account on the ledger
  submitted,         \* nonces of the submissions that are in flight
  nonceRejected,     \* TRUE: a submission failed with a nonce rejection and
                     \* nonce.current was not set from the ledger since
  staleNonceUsed,    \* TRUE: a submission took its nonce while nonceRejected
  walletTxs          \* transactions sent from elsewhere so far

broadcasterVars == <<nonceReady, nonceRef, ledgerNonce, submitted,
                     nonceRejected, staleNonceUsed, walletTxs>>

\* the effect on walletAddress and nonceReady: getTransactionCount resolves
NonceEffect ==
  /\ ~nonceReady
  /\ nonceRef' = ledgerNonce
  /\ nonceReady' = TRUE
  /\ nonceRejected' = FALSE
  /\ UNCHANGED <<ledgerNonce, submitted, staleNonceUsed, walletTxs>>

\* mutant of SendAudioToBlockchain: nonce.current is read but not advanced
SendAudioToBlockchain_Reuses ==
  IF ~nonceReady
  THEN UNCHANGED broadcasterVars
  ELSE /\ nonceRef < MaxBroadcasts
       /\ submitted' = submitted \cup {nonceRef}
       /\ staleNonceUsed' = (staleNonceUsed \/ nonceRejected)
       /\ UNCHANGED <<nonceReady, nonceRef, ledgerNonce, nonceRejected, walletTxs>>

\* sendAudioToBlockchain up to the call of sendAudioBatch: it throws while
\* the nonce is not ready, and takes nonce.current++ otherwise
SendAudioToBlockchain ==
  IF ~nonceReady
  THEN UNCHANGED broadcasterVars
  ELSE /\ nonceRef < MaxBroadcasts
       /\ submitted' = submitted \cup {nonceRef}
       /\ nonceRef' = nonceRef + 1
       /\ staleNonceUsed' = (staleNonceUsed \/ nonceRejected)
       /\ UNCHANGED <<nonceReady, ledgerNonce, nonceRejected, walletTxs>>

\* the ledger executes the submission that carries the account's next nonce;
\* sendAudioBatch resolves
SubmissionAccepted(n) ==
  /\ n \in submitted
  /\ n = ledgerNonce
  /\ ledgerNonce' = ledgerNonce + 1
  /\ submitted' = submitted \ {n}
  /\ UNCHANGED <<nonceReady, nonceRef, nonceRejected, staleNonceUsed, walletTxs>>

\* the ledger rejects a submission whose nonce is not the account's next
\* one; sendAudioBatch rejects and the catch block rethrows
SubmissionNonceRejected(n) ==
  /\ n \in submitted
  /\ n # ledgerNonce
  /\ submitted' = submitted \ {n}
  /\ nonceRejected' = TRUE
  /\ UNCHANGED <<nonceReady, nonceRef, ledgerNonce, staleNonceUsed, walletTxs>>

\* a submission fails for another reason; the catch block rethrows
SubmissionFails(n) ==
  /\ n \in submitted
  /\ submitted' = submitted \ {n}
  /\ UNCHANGED <<nonceReady, nonceRef, ledgerNonce, nonceRejected,
                 staleNonceUsed, walletTxs>>

\* the account sends a transaction from elsewhere
WalletTx ==
  /\ walletTxs < MaxWalletTxs
  /\ walletTxs' = walletTxs + 1
  /\ ledgerNonce' = ledgerNonce + 1
  /\ UNCHANGED <<nonceReady, nonceRef, submitted, nonceRejected, staleNonceUsed>>

BroadcasterInit ==
  /\ nonceReady = FALSE
  /\ nonceRef = 0
  /\ ledgerNonce = 0
  /\ submitted = {}
  /\ nonceRejected = FALSE
  /\ staleNonceUsed = FALSE
  /\ walletTxs = 0

BroadcasterNext ==
  \/ NonceEffect
  \/ SendAudioToBlockchain
  \/ \E n \in 0..MaxBroadcasts : SubmissionAccepted(n)
  \/ \E n \in 0..MaxBroadcasts : SubmissionNonceRejected(n)
  \/ \E n \in 0..MaxBroadcasts : SubmissionFails(n)
  \/ WalletTx

(***************************************************************************)
(* The receipt poller (trackTransaction, pollPendingTransactions,          *)
(* pollSingleTransaction)                                                  *)
(***************************************************************************)
\* maxPolls of trackTransaction when the caller gives none
DEFAULT_MAX_POLLS == 10
\* transactions registered with trackTransaction
MaxTracked == 1
\* receipt requests of one transaction that are in flight at a time
MaxInFlightPolls == 2

\* the transactions, in the order of their registration
PollTxs == 1..MaxTracked
\* values the caller gives maxPolls
PollBudgets == {1, DEFAULT_MAX_POLLS}

VARIABLES
  pendingTransactions, \* the registered transactions that are still polled
  isPolling,
  pollTimer,           \* TRUE: setTimeout(pollPendingTransactions) is pending
  tracked,             \* calls of trackTransaction so far
  maxPollsOf,          \* transaction -> its maxPolls
  currentPoll,         \* transaction -> its currentPoll
  pollsInFlight,       \* transaction -> receipt requests in flight
  receipts,            \* transactions the ledger has a receipt of
  onConfirmedCalls,    \* transaction -> calls of its onConfirmed so far
  onErrorCalls         \* transaction -> calls of its onError so far

pollVars == <<pendingTransactions, isPolling, pollTimer, tracked, maxPollsOf,
              currentPoll, pollsInFlight, receipts, onConfirmedCalls,
              onErrorCalls>>

InPending(t) == \E i \in 1..Len(pendingTransactions) : pendingTransactions[i] = t

\* pendingTransactions.splice(indexOf(t), 1), nothing when t is not in it
SpliceTx(pending, t) == SelectSeq(pending, LAMBDA x : x # t)

\* the loop of pollPendingTransactions: one pollSingleTransaction for every
\* transaction of the list
StartPolls(pending, polls) ==
  [t \in PollTxs |->
     IF \E i \in 1..Len(pending) : pending[i] = t
     THEN polls[t] + 1 ELSE polls[t]]

\* trackTransaction(hash, nonce, maxPolls): push, and startTxPolling when
\* the poller is idle
TrackTransaction(maxPolls) ==
  /\ tracked < MaxTracked
  /\ LET t == tracked + 1
         pending == Append(pendingTransactions, t)
     IN /\ tracked' = t
        /\ pendingTransactions' = pending
        /\ maxPollsOf' = [maxPollsOf EXCEPT ![t] = maxPolls]
        /\ IF ~isPolling
           THEN /\ isPolling' = TRUE
                /\ pollsInFlight' = StartPolls(pending, pollsInFlight)
                /\ pollTimer' = TRUE
           ELSE UNCHANGED <<isPolling, pollsInFlight, pollTimer>>
  /\ UNCHANGED <<currentPoll, receipts, onConfirmedCalls, onErrorCalls>>

\* the timer of pollPendingTransactions fires
PollPendingTransactions ==
  /\ pollTimer
  /\ IF pendingTransactions = <<>>
     THEN /\ isPolling' = FALSE
          /\ pollTimer' = FALSE
          /\ UNCHANGED pollsInFlight
     ELSE /\ \A t \in PollTxs : InPending(t) => pollsInFlight[t] < MaxInFlightPolls
          /\ isPolling' = TRUE
          /\ pollsInFlight' = StartPolls(pendingTransactions, pollsInFlight)
          /\ pollTimer' = TRUE
  /\ UNCHANGED <<pendingTransactions, tracked, maxPollsOf, currentPoll, receipts,
                 onConfirmedCalls, onErrorCalls>>

\* pollSingleTransaction: getTransactionReceipt returns a receipt; the
\* transaction is removed when it is still in the list, and onConfirmed is
\* called
PollReturnsReceipt(t) ==
  /\ pollsInFlight[t] > 0
  /\ t \in receipts
  /\ pollsInFlight' = [pollsInFlight EXCEPT ![t] = @ - 1]
  /\ pendingTransactions' = SpliceTx(pendingTransactions, t)
  /\ onConfirmedCalls' = [onConfirmedCalls EXCEPT ![t] = @ + 1]
  /\ UNCHANGED <<isPolling, pollTimer, tracked, maxPollsOf, currentPoll, receipts,
                 onErrorCalls>>

\* "increment poll count" and, at maxPolls, the removal of the transaction
\* when it is still in the list and the call of onError
CountPoll(t) ==
  /\ pollsInFlight' = [pollsInFlight EXCEPT ![t] = @ - 1]
  /\ currentPoll' = [currentPoll EXCEPT ![t] = @ + 1]
  /\ pendingTransactions' =
       IF currentPoll[t] + 1 >= maxPollsOf[t]
       THEN SpliceTx(pendingTransactions, t) ELSE pendingTransactions
  /\ onErrorCalls' =
       IF currentPoll[t] + 1 >= maxPollsOf[t]
       THEN [onErrorCalls EXCEPT ![t] = @ + 1] ELSE onErrorCalls
  /\ UNCHANGED <<isPolling, pollTimer, tracked, maxPollsOf, receipts,
                 onConfirmedCalls>>

\* pollSingleTransaction: getTransactionReceipt returns no receipt
PollReturnsNull(t) ==
  /\ pollsInFlight[t] > 0
  /\ t \notin receipts
  /\ CountPoll(t)

\* mutant of PollThrows: a failed request is not counted
PollThrows_Uncounted(t) ==
  /\ pollsInFlight[t] > 0
  /\ pollsInFlight' = [pollsInFlight EXCEPT ![t] = @ - 1]
  /\ UNCHANGED <<pendingTransactions, isPolling, pollTimer, tracked,
                 maxPollsOf, currentPoll, receipts, onConfirmedCalls,
                 onErrorCalls>>

\* pollSingleTransaction: getTransactionReceipt throws (the catch block)
PollThrows(t) ==
  /\ pollsInFlight[t] > 0
  /\ CountPoll(t)

\* the ledger executes a registered transaction
ReceiptAppears(t) ==
  /\ t <= tracked
  /\ t \notin receipts
  /\ receipts' = receipts \cup {t}
  /\ UNCHANGED <<pendingTransactions, isPolling, pollTimer, tracked,
                 maxPollsOf, currentPoll, pollsInFlight, onConfirmedCalls,
                 onErrorCalls>>

PollInit ==
  /\ pendingTransactions = <<>>
  /\ isPolling = FALSE
  /\ pollTimer = FALSE
  /\ tracked = 0
  /\ maxPollsOf = [t \in PollTxs |-> DEFAULT_MAX_POLLS]
  /\ currentPoll = [t \in PollTxs |-> 0]
  /\ pollsInFlight = [t \in PollTxs |-> 0]
  /\ receipts = {}
  /\ onConfirmedCalls = [t \in PollTxs |-> 0]
  /\ onErrorCalls = [t \in PollTxs |-> 0]

PollNext ==
  \/ \E maxPolls \in PollBudgets : TrackTransaction(maxPolls)
  \/ PollPendingTransactions
  \/ \E t \in PollTxs : PollReturnsReceipt(t)
  \/ \E t \in PollTxs : PollReturnsNull(t)
  \/ \E t \in PollTxs : PollThrows(t)
  \/ \E t \in PollTxs : ReceiptAppears(t)

(***************************************************************************)
(* A broadcasting session: the encoder with sendAudioToBlockchain as its   *)
(* send function                                                           *)
(***************************************************************************)
VARIABLES
  closureReady,      \* nonceReady as the send function given to start() sees it
  sessionLog           \* [sequence, nonce] of each submission, in call order

sessionVars == <<closureReady, sessionLog>>

\* the nonce the frame with this sequence was submitted with, or NULL
NonceOfFrame(seq) ==
  IF \E i \in DOMAIN sessionLog : sessionLog[i].sequence = seq
  THEN sessionLog[CHOOSE i \in DOMAIN sessionLog : sessionLog[i].sequence = seq].nonce
  ELSE NULL

\* startBroadcasting: encoder.start(sendAudioToBlockchain,
\* handleMetricsUpdate) with the function of the render the button was
\* pressed in, which holds the nonceReady of that render
SessionStartBegin ==
  /\ EncoderStartBegin(TRUE)
  /\ \E ready \in {FALSE, nonceReady} : closureReady' = ready
  /\ UNCHANGED sessionLog
  /\ UNCHANGED broadcasterVars

\* a batching timer fires: flushFrameQueue() and, when it has a frame, the
\* call of sendAudioToBlockchain up to "await sendAudioBatch"
SessionFlush ==
  /\ FlushFrameQueue
  /\ IF isRecording /\ sendFunction /\ Len(frameQueue) > 0 /\ closureReady
     THEN /\ SendAudioToBlockchain
          /\ sessionLog' = Append(sessionLog,
                                [sequence |-> Shift(frameQueue).frame.sequence,
                                 nonce |-> nonceRef])
     ELSE /\ UNCHANGED broadcasterVars
          /\ UNCHANGED sessionLog
  /\ UNCHANGED closureReady

\* sendAudioBatch resolves: sendAudioToBlockchain returns the result and
\* flushFrameQueue goes on after its await
SessionSendResolves(frame, latency) ==
  /\ SendResolves(frame, latency)
  /\ NonceOfFrame(frame.sequence) # NULL
  /\ SubmissionAccepted(NonceOfFrame(frame.sequence))
  /\ UNCHANGED sessionVars

\* sendAudioToBlockchain throws ("Blockchain connection not ready", or the
\* error of sendAudioBatch, whatever it is, rethrown): the catch block of
\* flushFrameQueue
SessionSendRejects(frame) ==
  /\ SendRejects(frame)
  /\ IF NonceOfFrame(frame.sequence) = NULL
     THEN UNCHANGED broadcasterVars
     ELSE SubmissionFails(NonceOfFrame(frame.sequence))
  /\ UNCHANGED sessionVars

SessionInit ==
  /\ closureReady = FALSE
  /\ sessionLog = <<>>

SessionNext ==
  \/ /\ \/ SessionStartBegin
        \/ SessionFlush
        \/ \E frame \in inFlight, latency \in Latencies :
              SessionSendResolves(frame, latency)
        \/ \E frame \in inFlight : SessionSendRejects(frame)
  \/ /\ \/ EncoderStartDenied
        \/ EncoderStartGranted
        \/ \E size \in ChunkSizes : DataAvailable(size)
        \/ ProcessAudioChunks
        \/ EncoderStop
     /\ UNCHANGED <<broadcasterVars, sessionVars>>
  \/ /\ NonceEffect
     /\ UNCHANGED <<encoderVars, sessionVars>>

(***************************************************************************)
(* The polling listener (listenToAudioBatches with getLogs)                *)
(***************************************************************************)
\* block number of the chain when the page is opened
FirstBlock == 5
\* blocks the chain adds in one run
MaxNewBlocks == 3
\* callbacks of the polling timer that are in flight at a time
MaxFeedPolls == 2

FeedPollIds == 1..MaxFeedPolls
\* a callback slot without a callback
IdlePoll == [phase |-> "idle", fromBlock |-> 0, toBlock |-> 0]

VARIABLES
  chainHead,           \* block number of the chain
  feedTimer,           \* TRUE: pollInterval is scheduled
  feedStarted,         \* TRUE: listenToAudioBatches has set up the polling
  startBlock,          \* currentBlock of listenToAudioBatches
  lastProcessedBlock,
  feedPolls,           \* slot -> the callback in it: phase "number" (awaits
                       \* getBlockNumber) or "logs" (awaits getLogs) and the
                       \* fromBlock and toBlock of its getLogs
  queriedBlocks,       \* blocks in the range of a completed getLogs
  feedPollFailed       \* TRUE: a callback ended in its catch block

feedVars == <<chainHead, feedTimer, feedStarted, startBlock,
              lastProcessedBlock, feedPolls, queriedBlocks, feedPollFailed>>

\* the chain adds a block
NewBlock ==
  /\ chainHead < FirstBlock + MaxNewBlocks
  /\ chainHead' = chainHead + 1
  /\ UNCHANGED <<feedTimer, feedStarted, startBlock, lastProcessedBlock,
                 feedPolls, queriedBlocks, feedPollFailed>>

\* listenToAudioBatches from "await client.getBlockNumber()" to its return
FeedStart ==
  /\ ~feedStarted
  /\ feedStarted' = TRUE
  /\ startBlock' = chainHead
  /\ lastProcessedBlock' = chainHead
  /\ feedTimer' = TRUE
  /\ UNCHANGED <<chainHead, feedPolls, queriedBlocks, feedPollFailed>>

\* the function listenToAudioBatches returned: clearInterval(pollInterval)
FeedStop ==
  /\ feedTimer
  /\ feedTimer' = FALSE
  /\ UNCHANGED <<chainHead, feedStarted, startBlock, lastProcessedBlock,
                 feedPolls, queriedBlocks, feedPollFailed>>

\* pollInterval fires: the callback up to "await client.getBlockNumber()"
FeedPollTick(p) ==
  /\ feedTimer
  /\ feedPolls[p].phase = "idle"
  /\ feedPolls' = [feedPolls EXCEPT ![p].phase = "number"]
  /\ UNCHANGED <<chainHead, feedTimer, feedStarted, startBlock,
                 lastProcessedBlock, queriedBlocks, feedPollFailed>>

\* getBlockNumber resolves: the callback returns when there is no new
\* block, and calls getLogs from lastProcessedBlock + 1 to latestBlock
\* otherwise
BlockNumberReturns(p) ==
  /\ feedPolls[p].phase = "number"
  /\ LET latestBlock == chainHead
     IN feedPolls' =
          IF latestBlock <= lastProcessedBlock
          THEN [feedPolls EXCEPT ![p] = IdlePoll]
          ELSE [feedPolls EXCEPT ![p] = [phase |-> "logs",
                                         fromBlock |-> lastProcessedBlock + 1,
                                         toBlock |-> latestBlock]]
  /\ UNCHANGED <<chainHead, feedTimer, feedStarted, startBlock,
                 lastProcessedBlock, queriedBlocks, feedPollFailed>>

\* getBlockNumber rejects: the catch block
BlockNumberThrows(p) ==
  /\ feedPolls[p].phase = "number"
  /\ feedPolls' = [feedPolls EXCEPT ![p] = IdlePoll]
  /\ feedPollFailed' = TRUE
  /\ UNCHANGED <<chainHead, feedTimer, feedStarted, startBlock,
                 lastProcessedBlock, queriedBlocks>>

\* getLogs resolves: the logs are processed and lastProcessedBlock is set to
\* the callback's latestBlock
GetLogsReturns(p) ==
  /\ feedPolls[p].phase = "logs"
  /\ queriedBlocks' = queriedBlocks \cup (feedPolls[p].fromBlock..feedPolls[p].toBlock)
  /\ lastProcessedBlock' = feedPolls[p].toBlock
  /\ feedPolls' = [feedPolls EXCEPT ![p] = IdlePoll]
  /\ UNCHANGED <<chainHead, feedTimer, feedStarted, startBlock, feedPollFailed>>

\* mutant of GetLogsThrows: the failed range counts as processed
GetLogsThrows_Advances(p) ==
  /\ feedPolls[p].phase = "logs"
  /\ lastProcessedBlock' = feedPolls[p].toBlock
  /\ feedPolls' = [feedPolls EXCEPT ![p] = IdlePoll]
  /\ feedPollFailed' = TRUE
  /\ UNCHANGED <<chainHead, feedTimer, feedStarted, startBlock, queriedBlocks>>

\* getLogs rejects: the catch block
GetLogsThrows(p) ==
  /\ feedPolls[p].phase = "logs"
  /\ feedPolls' = [feedPolls EXCEPT ![p] = IdlePoll]
  /\ feedPollFailed' = TRUE
  /\ UNCHANGED <<chainHead, feedTimer, feedStarted, startBlock,
                 lastProcessedBlock, queriedBlocks>>

FeedInit ==
  /\ chainHead = FirstBlock
  /\ feedTimer = FALSE
  /\ feedStarted = FALSE
  /\ startBlock = 0
  /\ lastProcessedBlock = 0
  /\ feedPolls = [p \in FeedPollIds |-> IdlePoll]
  /\ queriedBlocks = {}
  /\ feedPollFailed = FALSE

FeedNext ==
  \/ NewBlock
  \/ FeedStart
  \/ FeedStop
  \/ \E p \in FeedPollIds : FeedPollTick(p)
  \/ \E p \in FeedPollIds : BlockNumberReturns(p)
  \/ \E p \in FeedPollIds : BlockNumberThrows(p)
  \/ \E p \in FeedPollIds : GetLogsReturns(p)
  \/ \E p \in FeedPollIds : GetLogsThrows(p)

(***************************************************************************)
(* Specifications                                                          *)
(***************************************************************************)
vars == <<playerVars, wireVars, encoderVars, nonceVars, rawVars, listenerVars,
         channelVars, contractVars, broadcasterVars, pollVars, sessionVars, feedVars>>

\* a listening session on a stream heard from its start or mid-stream
Init ==
  /\ PlayerInit /\ countTicks = FALSE /\ traceCalls = FALSE
  /\ traceBatches = FALSE
  /\ WireInit /\ EncoderInit /\ traceFraming = FALSE /\ NonceInit /\ RawInit /\ ListenerInit /\ keccakFeed = FALSE
  /\ ChannelInit /\ ContractInit /\ BroadcasterInit /\ PollInit
  /\ SessionInit /\ FeedInit
\* the same with the listener's build fixed (the listener stays idle)
IdleListenerInit == Init /\ lossSkip = FALSE
SpecInputs == BatchInputs(StreamSeqs)
Next ==
  /\ PlayerNext(SpecInputs)
  /\ UNCHANGED <<wireVars, encoderVars, nonceVars, rawVars, listenerVars,
                 channelVars, contractVars, broadcasterVars, pollVars, sessionVars, feedVars>>
Spec == Init /\ [][Next]_vars

\* a listening session that also receives a late part of the stream
RetentionInputs == BatchInputs(FarStreamSeqs)
RetentionNext ==
  /\ PlayerNext(RetentionInputs)
  /\ UNCHANGED <<wireVars, encoderVars, nonceVars, rawVars, listenerVars,
                 channelVars, contractVars, broadcasterVars, pollVars, sessionVars, feedVars>>
RetentionSpec == Init /\ [][RetentionNext]_vars

\* a listening session whose 10 ms timer keeps firing (setInterval)
LiveInit ==
  /\ PlayerInit /\ countTicks = TRUE /\ traceCalls = FALSE
  /\ traceBatches = FALSE
  /\ WireInit /\ EncoderInit /\ traceFraming = FALSE /\ NonceInit /\ RawInit /\ ListenerInit /\ keccakFeed = FALSE
  /\ ChannelInit /\ ContractInit /\ BroadcasterInit /\ PollInit
  /\ SessionInit /\ FeedInit
LiveInputs == BatchInputs(LiveStreamSeqs)
LiveNext ==
  /\ PlayerNext(LiveInputs)
  /\ UNCHANGED <<wireVars, encoderVars, nonceVars, rawVars, listenerVars,
                 channelVars, contractVars, broadcasterVars, pollVars, sessionVars, feedVars>>
LiveTick ==
  /\ ProcessFramesTick
  /\ UNCHANGED <<wireVars, encoderVars, nonceVars, rawVars, listenerVars,
                 channelVars, contractVars, broadcasterVars, pollVars, sessionVars, feedVars>>
PlayerLiveSpec == LiveInit /\ [][LiveNext]_vars /\ WF_vars(LiveTick)

\* a listening session whose calls of processBatch and processFrames are
\* recorded; payload byte j is j mod WirePeriod, so no two frames of a batch
\* carry the same bytes
TraceInit ==
  /\ PlayerInit /\ countTicks = FALSE /\ traceCalls = TRUE
  /\ traceBatches = FALSE
  /\ WireInit /\ EncoderInit /\ traceFraming = FALSE /\ NonceInit /\ RawInit /\ ListenerInit /\ keccakFeed = FALSE
  /\ ChannelInit /\ ContractInit /\ BroadcasterInit /\ PollInit
  /\ SessionInit /\ FeedInit
\* the shapes of BatchShapes, a count of 0 over a whole frame, and a count
\* above the frames of the payload
TraceShapes ==
  BatchShapes \cup
    {[count |-> 0, len |-> FRAME_SIZE],
     [count |-> MaxBatchFrames + 1, len |-> MaxBatchFrames * FRAME_SIZE + 1]}
\* the stream's frames that reach the listener: the first and three later
TraceSeqs == {0} \cup (5..(LastSeq - 2))
TraceInputs ==
  {b \in {[seqStart |-> s, count |-> sh.count,
           payload |-> Pattern(0, WirePeriod, sh.len)] :
             s \in TraceSeqs, sh \in TraceShapes} :
     \A i \in 0..(b.count - 1) : b.seqStart + i \in TraceSeqs}
TraceNext ==
  /\ PlayerNext(TraceInputs)
  /\ UNCHANGED <<wireVars, encoderVars, nonceVars, rawVars, listenerVars,
                 channelVars, contractVars, broadcasterVars, pollVars, sessionVars, feedVars>>
TraceSpec == TraceInit /\ [][TraceNext]_vars

\* the same on a shorter stream, with the arguments of processBatch
\* recorded; every whole frame of a payload is one of the stream's frames
BatchInit ==
  /\ PlayerInit /\ countTicks = FALSE /\ traceCalls = TRUE
  /\ traceBatches = TRUE
  /\ WireInit /\ EncoderInit /\ traceFraming = FALSE /\ NonceInit /\ RawInit /\ ListenerInit /\ keccakFeed = FALSE
  /\ ChannelInit /\ ContractInit /\ BroadcasterInit /\ PollInit
  /\ SessionInit /\ FeedInit
BatchSeqs == {0} \cup (5..(LastSeq - 3))
BatchSpecInputs ==
  {b \in {[seqStart |-> s, count |-> sh.count,
           payload |-> Pattern(0, WirePeriod, sh.len)] :
             s \in BatchSeqs, sh \in TraceShapes} :
     \A i \in 0..(Floor(Len(b.payload), FRAME_SIZE) - 1) :
        b.seqStart + i \in BatchSeqs}
BatchNext ==
  /\ PlayerNext(BatchSpecInputs)
  /\ UNCHANGED <<wireVars, encoderVars, nonceVars, rawVars, listenerVars,
                 channelVars, contractVars, broadcasterVars, pollVars, sessionVars, feedVars>>
BatchSpec == BatchInit /\ [][BatchNext]_vars

\* batches travel from a broadcaster through the contract to a listener
WireNext ==
  \/ /\ \/ PlayerStart
        \/ PlayerStop
     /\ UNCHANGED <<wireVars, encoderVars, nonceVars, rawVars, listenerVars,
                 channelVars, contractVars, broadcasterVars, pollVars, sessionVars, feedVars>>
  \/ /\ \/ \E seqStart \in WireSeqStarts, k \in WireFrameCounts,
              g \in 0..1, t \in WireTails : WireSubmit(seqStart, k, g, t)
        \/ ContractSendBatch
        \/ OnLogs
     /\ UNCHANGED <<encoderVars, nonceVars, rawVars, listenerVars,
                 channelVars, contractVars, broadcasterVars, pollVars, sessionVars, feedVars>>
WireSpec == Init /\ [][WireNext]_vars

\* a broadcasting session: recorder, timers and submissions interleave
EncoderSpecNext ==
  /\ EncoderNext
  /\ UNCHANGED <<playerVars, wireVars, nonceVars, rawVars, listenerVars,
                 channelVars, contractVars, broadcasterVars, pollVars, sessionVars, feedVars>>
EncoderSpec == IdleListenerInit /\ [][EncoderSpecNext]_vars

\* a broadcasting session whose captured and framed bytes are recorded
FramingInit ==
  /\ PlayerInit /\ countTicks = FALSE /\ traceCalls = FALSE
  /\ traceBatches = FALSE /\ lossSkip = FALSE
  /\ WireInit /\ EncoderInit /\ traceFraming = TRUE /\ NonceInit
  /\ RawInit /\ ListenerInit /\ keccakFeed = FALSE
  /\ ChannelInit /\ ContractInit /\ BroadcasterInit /\ PollInit
  /\ SessionInit /\ FeedInit
FramingSpec == FramingInit /\ [][EncoderSpecNext]_vars

\* broadcasting sessions that follow one another (start() is called when no
\* earlier call of it is waiting for the microphone, without a metrics
\* callback), with pacing ticks that keep firing (setInterval of start())
PacingNext ==
  /\ \/ startsPending = 0 /\ EncoderStartBegin(FALSE)
     \/ EncoderStartDenied
     \/ EncoderStartGranted
     \/ \E size \in ChunkSizes : DataAvailable(size)
     \/ ProcessAudioChunks
     \/ FlushFrameQueue
     \/ \E frame \in inFlight, latency \in Latencies : SendResolves(frame, latency)
     \/ \E frame \in inFlight : SendRejects(frame)
     \/ EncoderStop
  /\ UNCHANGED <<playerVars, wireVars, nonceVars, rawVars, listenerVars,
                 channelVars, contractVars, broadcasterVars, pollVars, sessionVars, feedVars>>
PacingTick ==
  /\ FlushFrameQueue
  /\ UNCHANGED <<playerVars, wireVars, nonceVars, rawVars, listenerVars,
                 channelVars, contractVars, broadcasterVars, pollVars, sessionVars, feedVars>>
PacingSpec ==
  /\ IdleListenerInit
  /\ [][PacingNext]_vars
  /\ WF_vars(PacingTick)

\* concurrent submissions through the nonce tracker
NonceSpecNext ==
  /\ NonceNext
  /\ UNCHANGED <<playerVars, wireVars, encoderVars, rawVars, listenerVars,
                 channelVars, contractVars, broadcasterVars, pollVars, sessionVars, feedVars>>
NonceSpec == IdleListenerInit /\ [][NonceSpecNext]_vars

\* one call of sendRawTransaction: every request completes, every timer fires
RawSpecNext ==
  /\ RawNext
  /\ UNCHANGED <<playerVars, wireVars, encoderVars, nonceVars, listenerVars,
                 channelVars, contractVars, broadcasterVars, pollVars, sessionVars, feedVars>>
RawRequestCompletes ==
  /\ RequestCompletes
  /\ UNCHANGED <<playerVars, wireVars, encoderVars, nonceVars, listenerVars,
                 channelVars, contractVars, broadcasterVars, pollVars, sessionVars, feedVars>>
RawBackoffElapsed ==
  /\ BackoffElapsed
  /\ UNCHANGED <<playerVars, wireVars, encoderVars, nonceVars, listenerVars,
                 channelVars, contractVars, broadcasterVars, pollVars, sessionVars, feedVars>>
RawSpec ==
  /\ IdleListenerInit
  /\ [][RawSpecNext]_vars
  /\ WF_vars(RawRequestCompletes)
  /\ WF_vars(RawBackoffElapsed)

\* a listening session of the Listener page
\* the batches of the feed: the contract's event carries the count of whole
\* frames of its payload
ListenerInputs ==
  {b \in BatchInputs(5..LastSeq) :
     Len(b.payload) > 0 /\ b.count = Floor(Len(b.payload), FRAME_SIZE)}
ListenerSpecNext ==
  /\ ListenerNext(ListenerInputs)
  /\ UNCHANGED <<wireVars, encoderVars, nonceVars, rawVars,
                 channelVars, contractVars, broadcasterVars, pollVars, sessionVars, feedVars>>
\* the page with either build of listenToAudioBatches
ListenerSpecInit ==
  /\ PlayerInit /\ countTicks = FALSE /\ traceCalls = FALSE
  /\ traceBatches = FALSE
  /\ WireInit /\ EncoderInit /\ traceFraming = FALSE /\ NonceInit /\ RawInit /\ ListenerInit
  /\ ChannelInit /\ ContractInit /\ BroadcasterInit /\ PollInit
  /\ SessionInit /\ FeedInit
ListenerSpec == ListenerSpecInit /\ [][ListenerSpecNext]_vars

\* channel strings entered on the broadcasting and on the listening page
ChannelSpecNext ==
  /\ ChannelNext
  /\ UNCHANGED <<playerVars, wireVars, encoderVars, nonceVars, rawVars,
                 listenerVars, contractVars, broadcasterVars, pollVars, sessionVars, feedVars>>
ChannelSpec == IdleListenerInit /\ [][ChannelSpecNext]_vars

\* transactions that call sendBatch
ContractSpecNext ==
  /\ ContractNext
  /\ UNCHANGED <<playerVars, wireVars, encoderVars, nonceVars, rawVars,
                 listenerVars, channelVars, broadcasterVars, pollVars, sessionVars, feedVars>>
ContractSpec == IdleListenerInit /\ [][ContractSpecNext]_vars

\* the nonce of the Broadcaster page over one session
BroadcasterSpecNext ==
  /\ BroadcasterNext
  /\ UNCHANGED <<playerVars, wireVars, encoderVars, nonceVars, rawVars,
                 listenerVars, channelVars, contractVars, pollVars,
                 sessionVars, feedVars>>
BroadcasterSpec == IdleListenerInit /\ [][BroadcasterSpecNext]_vars

\* a broadcasting session of the Broadcaster page: encoder, nonce and the
\* ledger, whose count of the account moves with the session's submissions
BroadcastSessionNext ==
  /\ SessionNext
  /\ UNCHANGED <<playerVars, wireVars, nonceVars, rawVars, listenerVars,
                 channelVars, contractVars, pollVars, feedVars>>
BroadcastSessionSpec == IdleListenerInit /\ [][BroadcastSessionNext]_vars

\* the polling listener on a chain that grows
FeedSpecNext ==
  /\ FeedNext
  /\ UNCHANGED <<playerVars, wireVars, encoderVars, nonceVars, rawVars,
                 listenerVars, channelVars, contractVars, broadcasterVars,
                 pollVars, sessionVars>>
FeedSpec == IdleListenerInit /\ [][FeedSpecNext]_vars

\* the receipt poller: its timer keeps firing (setTimeout) and every receipt
\* request that is in flight completes
PollSpecNext ==
  /\ PollNext
  /\ UNCHANGED <<playerVars, wireVars, encoderVars, nonceVars, rawVars,
                 listenerVars, channelVars, contractVars, broadcasterVars,
                 sessionVars, feedVars>>
PollTimerFires ==
  /\ PollPendingTransactions
  /\ UNCHANGED <<playerVars, wireVars, encoderVars, nonceVars, rawVars,
                 listenerVars, channelVars, contractVars, broadcasterVars,
                 sessionVars, feedVars>>
PollCompletes(t) ==
  /\ PollReturnsReceipt(t) \/ PollReturnsNull(t) \/ PollThrows(t)
  /\ UNCHANGED <<playerVars, wireVars, encoderVars, nonceVars, rawVars,
                 listenerVars, channelVars, contractVars, broadcasterVars,
                 sessionVars, feedVars>>
PollSpec ==
  /\ IdleListenerInit
  /\ [][PollSpecNext]_vars
  /\ WF_vars(PollTimerFires)
  /\ \A t \in PollTxs : WF_vars(PollCompletes(t))

(***************************************************************************)
(* Claims about the jitter buffer                                          *)
(***************************************************************************)
IsStrictlyIncreasing(q) == \A i \in 1..(Len(q) - 1) : q[i] < q[i + 1]

\* C1: within a playback session the sequences handed to playback are
\* strictly increasing: each operation hands over increasing sequences, all
\* above the last one handed over before it.
C1_PlaybackStrictlyIncreasing ==
  isPlaying => IsStrictlyIncreasing(<<lastPlayed>> \o emitted)

\* C1 witness: an operation played frames after earlier ones were played,
\* while a sequence that was already played is buffered again
C1_Witness ==
  /\ isPlaying
  /\ emitted # <<>>
  /\ lastPlayed >= 0
  /\ \E s \in DOMAIN frameMap : s <= lastPlayed

\* C2: a gap that has lasted ceil(jitterBufferMs / 20) timer ticks (the
\* expected sequence is missing, a later one is buffered) is eventually left
\* behind: expectedSequence moves past the missing sequence.
C2_GapEventuallySkipped ==
  \A s \in StreamSeqs \cup {LastSeq + 1} :
    (/\ isPlaying
     /\ expectedSequence = s
     /\ GapAt(frameMap, s)
     /\ gapTicks >= JitterBufferFrames(jitterBufferMs))
      ~> (expectedSequence > s \/ ~isPlaying)

\* the buffer state after a batch is delivered to buffer state st
Deliver(st, b) ==
  LET r == ProcessBatchOn(st, b.seqStart, b.count, b.payload,
                          jitterBufferMs, audioContext, lossSkip)
  IN [frameMap |-> r.frameMap, expectedSequence |-> r.expectedSequence,
      packetsPlayed |-> r.packetsPlayed, packetsLost |-> r.packetsLost]

\* C3: delivering a batch twice leaves the buffer (buffered frames,
\* expectedSequence, played and lost counters) as delivering it once does,
\* from every reachable state of a playing player.
C3_DuplicateBatchIdempotent ==
  isPlaying =>
    \A b \in SpecInputs : Deliver(Deliver(PlayerState, b), b) = Deliver(PlayerState, b)

\* C4: the buffer holds no sequence below expectedSequence - 100.
C4_RetentionBound ==
  \A s \in DOMAIN frameMap : s >= expectedSequence - RETENTION_WINDOW

\* the first sequence from `from` on that is not buffered
FirstMissing(fm, from) ==
  Min({s \in from..(Max(DOMAIN fm \cup {from}) + 1) : s \notin DOMAIN fm})

\* the loss rule on buffer state st (non-empty), stated without the code's
\* steps: when the gate is open and, past the run of frames that starts at
\* the expected sequence, a frame n is buffered, the whole span up to n is
\* counted as lost and n is expected next
LossRule(st) ==
  LET fm == st.frameMap
      exp0 == IF st.expectedSequence = 0 THEN Min(DOMAIN fm) ELSE st.expectedSequence
      e == FirstMissing(fm, exp0)
      ahead == {s \in DOMAIN fm : s > e}
      r == ProcessFrames(st, jitterBufferMs, audioContext, lossSkip)
  IN (Max(DOMAIN fm) - exp0 + 1 >= JitterBufferFrames(jitterBufferMs) /\ ahead # {})
       => /\ r.packetsLost = st.packetsLost + (Min(ahead) - e)
          /\ r.expectedSequence = Min(ahead)

\* C6: in the build with loss handling, every processFrames call (of the
\* timer, and of processBatch after it stored a batch's frames) that passes
\* the gate and leaves a later frame n buffered after draining adds exactly
\* n - expectedSequence to packetsLost and expects n next.
C6_LostSpanCounted ==
  (isPlaying /\ lossSkip) =>
    /\ DOMAIN frameMap # {} => LossRule(PlayerState)
    /\ \A b \in SpecInputs :
         LET st == [PlayerState EXCEPT
                      !.frameMap = InsertFrames(frameMap,
                                     DecodeBatch(b.seqStart, b.count, b.payload))]
         IN (Len(b.payload) # 0 /\ DOMAIN st.frameMap # {}) => LossRule(st)

\* C6 witness: arrivals 5, 6, 8, 9 with a gate of 3 frames: 5 and 6 were
\* played, one frame (7) was counted lost, 8 and 9 wait for the gate
C6_Witness ==
  /\ isPlaying /\ lossSkip
  /\ JitterBufferFrames(jitterBufferMs) = 3
  /\ lastPlayed = 6 /\ emitted = <<>>
  /\ packetsPlayed = 2
  /\ packetsLost = 1
  /\ expectedSequence = 8
  /\ DOMAIN frameMap = {8, 9}

(***************************************************************************)
(* Claims about the path of a batch                                        *)
(***************************************************************************)
\* the frames handed to the submitter, with the sequence numbers they are
\* meant to carry
SubmittedFrames ==
  [i \in 1..Len(wireFrames) |->
     [sequence |-> wireCall.seqStart + (i - 1), data |-> wireFrames[i]]]

\* C5: a batch of k whole frames (k in {0, 1, 255}), with or without bytes
\* short of a further frame, that went through sendBatch and was decoded
\* from the Batch event by a playing listener yields the same frames: the
\* sequence numbers seqStart..seqStart+k-1 in order, each with its bytes.
C5_BatchRoundTrip ==
  (wirePhase = "delivered" /\ wireHeard) => wireDecoded = SubmittedFrames

\* C5 witness: a batch of one frame with a payload one byte short of a
\* second frame, sent late in a stream, was decoded into that one frame
C5_Witness ==
  /\ wirePhase = "delivered" /\ wireHeard
  /\ Len(wireFrames) = 1
  /\ Len(wireTail) = FRAME_SIZE - 1
  /\ wireCall.seqStart = LateSeqStart
  /\ wireEvent.count = 1
  /\ Len(wireDecoded) = 1
  /\ wireDecoded[1].data # SubSeq(wireDecoded[1].data, 2, FRAME_SIZE) \o <<wireDecoded[1].data[1]>>

(***************************************************************************)
(* Claims about the encoder                                                *)
(***************************************************************************)
\* C7: a frame is handed to the send function at most once and never goes
\* back to the queue: no sequence number occurs twice in the calls of the
\* send function, none that was handed over is queued, every handed-over
\* frame is in flight, delivered or failed (one of the three), so that of
\* N frames dequeued with f failures N - f are delivered once all settled.
C7_AtMostOnce ==
  /\ \A i, j \in 1..Len(sendLog) : i # j => sendLog[i] # sendLog[j]
  /\ \A i \in 1..Len(sendLog), j \in 1..Len(frameQueue) :
       frameQueue[j].sequence # sendLog[i]
  /\ delivered \cap failed = {}
  /\ \A f \in inFlight : f.sequence \notin delivered \cup failed
  /\ {sendLog[i] : i \in 1..Len(sendLog)}
       = delivered \cup failed \cup {f.sequence : f \in inFlight}
  /\ inFlight = {} => Cardinality(delivered) = Len(sendLog) - Cardinality(failed)

\* C7 witness: three frames were handed over; one failed, one was delivered,
\* one is in flight, and frames captured later are queued
C7_Witness ==
  /\ Len(sendLog) >= 3
  /\ failed # {} /\ delivered # {} /\ inFlight # {}
  /\ \E s \in failed : \E d \in delivered : s < d
  /\ frameQueue # <<>>

\* the bytes of the queued frames, in queue order
QueuedBytes == Combine([i \in 1..Len(frameQueue) |-> frameQueue[i].data])

\* C9: sequence numbers are assigned one by one in capture order and the
\* send function is called in that order: the calls of the send function
\* carry strictly increasing sequence numbers, the queue holds consecutive
\* sequence numbers that end at the last one assigned and are above every
\* number handed over, the queued bytes are in capture order, and every
\* step that queues frames numbers them from the next free number on.
C9_State ==
  /\ IsStrictlyIncreasing(sendLog)
  /\ \A i \in 1..(Len(frameQueue) - 1) :
       frameQueue[i + 1].sequence = frameQueue[i].sequence + 1
  /\ frameQueue # <<>> => frameQueue[Len(frameQueue)].sequence = sequence - 1
  /\ \A i \in 1..Len(sendLog) : sendLog[i] < sequence
  /\ \A i \in 1..Len(sendLog), j \in 1..Len(frameQueue) :
       sendLog[i] < frameQueue[j].sequence
  /\ LET bytes == QueuedBytes
     IN \A i \in 1..(Len(bytes) - 1) : bytes[i] <= bytes[i + 1]

C9_Step ==
  /\ sequence' >= sequence
  /\ Len(sendLog') > Len(sendLog) =>
       /\ frameQueue # <<>>
       /\ sendLog' = Append(sendLog, frameQueue[1].sequence)
  /\ sequence' > sequence =>
       /\ Len(frameQueue') = Len(frameQueue) + (sequence' - sequence)
       /\ \A i \in 1..(sequence' - sequence) :
            frameQueue'[Len(frameQueue) + i].sequence = sequence + (i - 1)

C9_SequencedFifo == [](C9_State) /\ [][C9_Step]_vars

\* C9 witness: after a restart (start() reset the metrics after a delivery)
\* a frame numbered above every delivered one is in flight while two later
\* frames wait in the queue
C9_Witness ==
  /\ isRecording
  /\ Cardinality(delivered) > totalBatchesSent
  /\ \E f \in inFlight : \A d \in delivered : d < f.sequence
  /\ Len(frameQueue) >= 2

(***************************************************************************)
(* Claims about the submitters                                             *)
(***************************************************************************)
\* C8: the nonces assigned to successive submissions are strictly
\* increasing, so none is assigned twice.
C8_NoncesStrictlyIncreasing == IsStrictlyIncreasing(nonceLog)

\* a call of sendRawTransaction that waits for the response is under way
RawPending == waitForResponse /\ rawPhase \in {"requesting", "backoff"}
RawSettled == rawPhase \in {"resolved", "rejected"}

\* C10: a waiting call issues at most maxRetries + 1 requests and settles:
\* it resolves on the first request that succeeds; it gives up with "max
\* retries exceeded" only when request number maxRetries + 1 has failed with
\* a retryable error.
C10_State ==
  waitForResponse =>
    /\ requestsIssued <= maxRetries + 1
    /\ requestsIssued = retryCount + (IF rawPhase = "idle" THEN 0 ELSE 1)
    /\ rawOutcome = "max retries" =>
         /\ rawPhase = "rejected"
         /\ requestsIssued = maxRetries + 1
         /\ IsRetryable(rawError)
    /\ rawOutcome = "hash" => rawPhase = "resolved"

C10_BoundedRetries == [](C10_State) /\ (RawPending ~> RawSettled)

\* C10 witness: the fourth request of a call with maxRetries = 3 failed with
\* a retryable error and the call was rejected
C10_Witness ==
  /\ waitForResponse
  /\ maxRetries = DEFAULT_MAX_RETRIES
  /\ rawPhase = "rejected" /\ rawOutcome = "max retries"
  /\ requestsIssued = DEFAULT_MAX_RETRIES + 1
  /\ backoffMs = 8 * INITIAL_BACKOFF_MS

\* C11: a request that failed with a message that mentions the nonce is
\* never retried: no retry is scheduled (backoff) after such a failure,
\* whatever else the message contains and whatever the retry count.
C11_NonceNeverRetried ==
  rawPhase = "backoff" => "nonce" \notin rawError

\* the processing timers and the batching timers of the encoder that are
\* scheduled: the one whose handle the encoder holds and the orphaned ones
ProcessingTimers == orphanedStarts + (IF encProcessingInterval THEN 1 ELSE 0)
BatchingTimers == orphanedStarts + (IF batchingInterval THEN 1 ELSE 0)

\* C13: the encoder never has more than one processing timer and one
\* batching timer scheduled, and while it is not recording (before start()
\* completed, after stop() returned) none of its timers is scheduled; for
\* every interleaving of start() and stop(), a second start() during the
\* microphone request of the first included.
C13_TimersHalted ==
  /\ ProcessingTimers <= 1
  /\ BatchingTimers <= 1
  /\ ~isRecording => ProcessingTimers = 0 /\ BatchingTimers = 0

\* C14: whenever the player is not playing (as constructed, and after
\* stop() returned on a playing player) its listening state is reset: the
\* frame map is empty, expectedSequence is 0, packetsPlayed and packetsLost
\* are 0.
C14_StopResetsState ==
  ~isPlaying =>
    /\ DOMAIN frameMap = {}
    /\ expectedSequence = 0
    /\ packetsPlayed = 0
    /\ packetsLost = 0

\* the step is a stop() of a playing player / a start() that succeeded
StopStep == isPlaying /\ ~isPlaying'
StartStep == ~isPlaying /\ isPlaying'

\* C14 (amended): after stop() returns on a playing player the frame map is
\* empty, while expectedSequence, packetsPlayed and packetsLost keep the
\* values they had at the stop; it is the next start() that resets them to
\* 0, together with the frame map.
C14_ResetAtNextStart ==
  /\ [](~isPlaying => DOMAIN frameMap = {})
  /\ [][StopStep => /\ expectedSequence' = expectedSequence
                    /\ packetsPlayed' = packetsPlayed
                    /\ packetsLost' = packetsLost]_vars
  /\ [][StartStep => /\ DOMAIN frameMap' = {}
                     /\ expectedSequence' = 0
                     /\ packetsPlayed' = 0
                     /\ packetsLost' = 0]_vars

\* a stopped player that still holds the position and the counters of the
\* session that ended
C14_Witness ==
  /\ ~isPlaying
  /\ expectedSequence > 0
  /\ packetsPlayed > 0
  /\ packetsLost > 0

\* C20: between start() and stop() expectedSequence never decreases,
\* whatever batches arrive (late, duplicate, out of order) and whenever the
\* timer fires, with and without the loss skip.
C20_ExpectedNeverDecreases ==
  [][(isPlaying /\ isPlaying') => expectedSequence' >= expectedSequence]_vars

\* a playing player that moved on while a frame it already passed is buffered
C20_Witness ==
  /\ isPlaying
  /\ expectedSequence > 0
  /\ \E s \in DOMAIN frameMap : s < expectedSequence /\ s > 0

\* C15: when a session was stopped and a new session is started on the same
\* encoder, the first frame the new session produces has sequence number 0.
C15_NewSessionStartsAtZero ==
  (sessionsEnded /\ isRecording /\ sessionFirst # NULL) => sessionFirst = 0

\* C12: a submission that was in flight when stop() was called changes
\* nothing when it completes afterwards: totalBatchesSent,
\* totalBytesTransmitted and lastLatency stay as they are and no metrics
\* callback is invoked, whether the encoder is stopped or runs a later
\* session by then.
C12_StaleCompletionIgnored ==
  [][\A frame \in staleInFlight :
       (frame \in inFlight /\ frame \notin inFlight') =>
         /\ totalBatchesSent' = totalBatchesSent
         /\ totalBytesTransmitted' = totalBytesTransmitted
         /\ lastLatency' = lastLatency
         /\ metricsReport' = <<>>]_vars

\* C16: when the subscription could not be acquired while a listening
\* session was being started, the session is stopped: once the error is
\* shown and no start is under way, the player is not playing and neither
\* its processing timer nor its statistics timer is running.
C16_FailedStartStopsPlayer ==
  (statusMessage = "Error starting listener" /\ subscribing = 0 /\ ~isListening)
    => (~isPlaying /\ ~processingInterval /\ ~statsInterval)

\* "Batching: 10 frames (200ms) per transaction"
FRAMES_PER_TRANSACTION == 10

\* C18: every call of the send function made by the pacer submits a batch
\* of 10 consecutive frames: the buffer of every submission in flight, which
\* the broadcaster passes on as the payload of one transaction, holds 10
\* frames.
C18_TenFramesPerWrite ==
  \A frame \in inFlight : Len(frame.data) = FRAMES_PER_TRANSACTION * FRAME_SIZE

\* C19: stringToBytes32 gives different keys to different channel strings,
\* so the callback of a listener is called only for batches that were sent
\* under the string the listener entered.
C19_ChannelKeysCollisionFree ==
  /\ (broadcastKey # <<>> /\ broadcastKey = listenKey)
       => broadcastChannel = listenChannel
  /\ channelDelivered => broadcastChannel = listenChannel

\* C17: a sendBatch transaction emits exactly one Batch event; the event
\* carries the channelId, the seqStart and the payload of the call
\* unchanged, and its count is the number of whole 160-byte frames of the
\* payload, for every payload length.
C17_BatchEventMatchesCall ==
  contractPhase = "emitted" =>
    /\ Len(contractLog) = 1
    /\ contractLog[1].channelId = contractCall.channelId
    /\ contractLog[1].seqStart = contractCall.seqStart
    /\ contractLog[1].payload = contractCall.frames
    /\ contractLog[1].count = Len(contractCall.frames) \div FRAME_SIZE

(***************************************************************************)
(* C24: the jitter gate                                                    *)
(***************************************************************************)
\* a step in which processFrames ran up to its gate and found fewer frames
\* from expectedSequence (after the bootstrap) to the highest buffered
\* sequence than ceil(jitterBufferMs / 20)
GateClosedCall ==
  /\ bufferDepth' # <<>>
  /\ bufferDepth'[1] < Ceil(jitterBufferMs, FRAME_MS)

\* what such a call leaves alone: nothing is released, the counters keep
\* their values and the buffer holds what it held (with, inside
\* processBatch, the frames the batch has just inserted)
GateClosedKeeps ==
  /\ emitted' = <<>>
  /\ packetsPlayed' = packetsPlayed
  /\ packetsLost' = packetsLost
  /\ frameMap' = InsertFrames(frameMap, offeredFrames')

\* C24, as stated: a processFrames call whose buffer depth is below the
\* jitter buffer size releases no frame and changes neither expectedSequence
\* nor the counters nor the buffered set
C24_GateClosedChangesNothing ==
  [][GateClosedCall => (GateClosedKeeps /\ expectedSequence' = expectedSequence)]_vars

\* C24, amended: such a call releases no frame and changes neither the
\* counters nor the buffered set; expectedSequence changes only through the
\* bootstrap, from 0 to the lowest buffered sequence
C24_GateClosedOnlyBootstraps ==
  [][GateClosedCall =>
       /\ GateClosedKeeps
       /\ \/ expectedSequence' = expectedSequence
          \/ /\ expectedSequence = 0
             /\ expectedSequence' = Min(DOMAIN frameMap')]_vars

\* the gate has closed on a session that had already played frames
C24_Witness ==
  /\ isPlaying
  /\ bufferDepth # <<>>
  /\ bufferDepth[1] < Ceil(jitterBufferMs, FRAME_MS)
  /\ bufferDepth[1] > 0
  /\ packetsPlayed > 0
  /\ expectedSequence > 0

(***************************************************************************)
(* C27: the bootstrap of expectedSequence                                  *)
(***************************************************************************)
\* the frame map processFrames works on in this step
MapAtCall == InsertFrames(frameMap, offeredFrames')

\* the sequence the gate of this step counted from: bufferDepth is
\* highestSeq - expectedSequence + 1
GateFrom == Max(DOMAIN MapAtCall) + 1 - bufferDepth'[1]

\* C27: when processFrames runs with expectedSequence 0 and a lowest buffered
\* sequence s > 0, the gate is evaluated from s and playback goes on from s
\* or later; when expectedSequence is not 0, the gate is evaluated from it
C27_BootstrapOnlyFromZero ==
  [][bufferDepth' # <<>> =>
       LET s == Min(DOMAIN MapAtCall)
       IN /\ (expectedSequence = 0 /\ s > 0) =>
               (GateFrom = s /\ expectedSequence' >= s
                /\ \A i \in 1..Len(emitted') : emitted'[i] >= s)
          /\ expectedSequence # 0 => GateFrom = expectedSequence]_vars

\* a session that started at a later sequence has played from there while
\* the late frame 0 is buffered below expectedSequence
C27_Witness ==
  /\ isPlaying
  /\ bufferDepth # <<>>
  /\ 0 \in DOMAIN frameMap
  /\ emitted # <<>>
  /\ emitted[1] > 0
  /\ expectedSequence > emitted[1]

(***************************************************************************)
(* C25: the frames of a batch                                              *)
(***************************************************************************)
\* frame i (from 0) of a batch as the claim states it
ClaimedFrame(seqStart, payload, i) ==
  [sequence |-> seqStart + i,
   data |-> [j \in 1..FRAME_SIZE |-> payload[FRAME_SIZE * i + j]]]

\* C25: processBatch(seqStart, count, payload) on a playing player offers
\* the frames seqStart + i with bytes payload[160 i, 160 i + 160) for
\* 0 <= i < min(count, floor(payload.length / 160)), in this order, and only
\* offered frames enter the buffer; when the minimum is 0 no frame enters
C25_OfferedFrames ==
  [][batchCall' # <<>> =>
       LET b == batchCall'[1]
           whole == Len(b.payload) \div FRAME_SIZE
           n == IF b.count < whole THEN b.count ELSE whole
       IN /\ offeredFrames' = [i \in 1..n |-> ClaimedFrame(b.seqStart, b.payload, i - 1)]
          /\ \A q \in DOMAIN frameMap' \ DOMAIN frameMap :
               \E i \in 0..(n - 1) :
                 /\ q = b.seqStart + i
                 /\ frameMap'[q] = ClaimedFrame(b.seqStart, b.payload, i).data]_vars

\* a batch whose count exceeds the whole frames of its payload has offered
\* two frames with different bytes
C25_Witness ==
  /\ isPlaying
  /\ batchCall # <<>>
  /\ batchCall[1].count > Len(batchCall[1].payload) \div FRAME_SIZE
  /\ Len(offeredFrames) = MaxBatchFrames
  /\ offeredFrames[1].data # offeredFrames[2].data
  /\ offeredFrames[2].sequence \in DOMAIN frameMap
  /\ frameMap[offeredFrames[2].sequence] = offeredFrames[2].data

(***************************************************************************)
(* C28: a batch delivered after stop()                                     *)
(***************************************************************************)
\* C28: from stop() to the next start() no step, a late batch of the event
\* feed included, changes the frame map, expectedSequence or the counters,
\* and none plays a frame
C28_LateBatchIgnored ==
  [][(~isPlaying /\ ~isPlaying') =>
       /\ frameMap' = frameMap
       /\ expectedSequence' = expectedSequence
       /\ packetsPlayed' = packetsPlayed
       /\ packetsLost' = packetsLost
       /\ emitted' = <<>>]_vars

\* a poller that outlived stopListening has delivered a batch to the stopped
\* player, which had a session before ("LISTENING" with isListening false
\* is the mark of handleAudioBatch after stopListening)
C28_Witness ==
  /\ ~isPlaying
  /\ ~isListening
  /\ lastBatch = "passed"
  /\ statusMessage = "LISTENING"
  /\ expectedSequence > 0

(***************************************************************************)
(* C29: the statistics timer                                               *)
(***************************************************************************)
\* a step in which the page's statistics change while the player's 500 ms
\* timer is scheduled and no startListening begins: a report of that timer
StatsStep ==
  /\ statsInterval
  /\ <<shownPacketsPlayed, shownPacketsLost>>' # <<shownPacketsPlayed, shownPacketsLost>>
  /\ subscribing' = subscribing
  /\ statusMessage' = statusMessage

\* C29: a statistics report leaves the frame map, expectedSequence and the
\* counters unchanged, plays nothing, and leaves the player playing with
\* its processing timer scheduled as before
C29_StatsTickReadsOnly ==
  [][StatsStep =>
       /\ shownPacketsPlayed' = packetsPlayed
       /\ shownPacketsLost' = packetsLost
       /\ frameMap' = frameMap
       /\ expectedSequence' = expectedSequence
       /\ packetsPlayed' = packetsPlayed
       /\ packetsLost' = packetsLost
       /\ emitted' = emitted
       /\ lastPlayed' = lastPlayed
       /\ isPlaying' = isPlaying
       /\ processingInterval' = processingInterval]_vars

\* the page shows the count of a session that has played frames and still
\* holds frames in its buffer
C29_Witness ==
  /\ isPlaying
  /\ shownPacketsPlayed > 0
  /\ shownPacketsPlayed = packetsPlayed
  /\ DOMAIN frameMap # {}

(***************************************************************************)
(* C30: the channel test of handleAudioBatch                               *)
(***************************************************************************)
\* C30: with the keccak256-based listenToAudioBatches, no batch the feed
\* delivers for the page's channel is discarded by handleAudioBatch
C30_OwnChannelBatchesPassed ==
  keccakFeed => lastBatch # "discarded"

(***************************************************************************)
(* C23: the broadcaster's nonce after a nonce rejection                    *)
(***************************************************************************)
\* C23: no submission of the broadcaster takes its nonce from nonce.current
\* after a nonce rejection unless nonce.current was set from the ledger in
\* between
C23_NonceResyncedAfterRejection == ~staleNonceUsed

(***************************************************************************)
(* C22: the receipt poller                                                 *)
(***************************************************************************)
\* C22: every registered transaction eventually leaves pendingTransactions;
\* it leaves with a poll that returns a receipt or with the poll that brings
\* currentPoll to maxPolls, and does not stay beyond maxPolls polls
C22_TrackedEventuallyRemoved ==
  /\ \A t \in PollTxs : InPending(t) ~> ~InPending(t)
  /\ [](\A t \in PollTxs : InPending(t) => currentPoll[t] < maxPollsOf[t])
  /\ [][\A t \in PollTxs :
         (InPending(t) /\ ~InPending(t)') =>
           \/ t \in receipts /\ currentPoll'[t] = currentPoll[t]
           \/ currentPoll'[t] = maxPollsOf[t]]_vars

\* the poller is idle again after a transaction left without a receipt, at
\* the completion of its maxPolls-th poll
C22_Witness ==
  /\ tracked > 0
  /\ pendingTransactions = <<>>
  /\ ~isPolling
  /\ \E t \in PollTxs :
       /\ t <= tracked
       /\ t \notin receipts
       /\ maxPollsOf[t] = DEFAULT_MAX_POLLS
       /\ currentPoll[t] = DEFAULT_MAX_POLLS

(***************************************************************************)
(* C21, C26: the pacing tick and failed submissions                        *)
(***************************************************************************)
\* a pacing tick that hands the oldest queued frame to the send function
SubmitsOldest ==
  /\ FlushFrameQueue
  /\ frameQueue' = Tail(frameQueue)
  /\ sendLog' = Append(sendLog, frameQueue[1].sequence)
  /\ inFlight' = inFlight \cup {frameQueue[1]}

\* the encoder is recording with a send function, a batching timer is
\* scheduled and a frame is queued
PacingReady ==
  /\ isRecording
  /\ sendFunction
  /\ BatchingTimers > 0
  /\ frameQueue # <<>>

\* C21: the step in which a submission fails leaves the encoder recording,
\* its timers scheduled and frameQueue as it was; and whenever a submission
\* has failed and the encoder is recording with its batching timer
\* scheduled and a frame queued, the pacing tick submits the oldest frame
C21_FailureKeepsSession ==
  /\ [][failed' # failed =>
          /\ isRecording' = isRecording
          /\ sendFunction' = sendFunction
          /\ encProcessingInterval' = encProcessingInterval
          /\ batchingInterval' = batchingInterval
          /\ orphanedStarts' = orphanedStarts
          /\ recorderActive' = recorderActive
          /\ frameQueue' = frameQueue]_vars
  /\ []((failed # {} /\ PacingReady) => ENABLED SubmitsOldest)

\* every submission of the session so far has failed; the encoder is still
\* recording with both timers scheduled and frames waiting in the queue
C21_Witness ==
  /\ PacingReady
  /\ batchingInterval
  /\ encProcessingInterval
  /\ sendLog # <<>>
  /\ failed = {sendLog[i] : i \in 1..Len(sendLog)}
  /\ inFlight = {}

SessionBase == IF bootstrapSeq = <<>> THEN 0 ELSE bootstrapSeq[1]

\* C32: in every state of a session expectedSequence equals the session's
\* base plus packetsPlayed plus packetsLost: every sequence the buffer has
\* moved past is counted once, as played or as lost; the base is above 0 when
\* the session has bootstrapped
C32_SequenceAccounting ==
  /\ expectedSequence = SessionBase + packetsPlayed + packetsLost
  /\ bootstrapSeq # <<>> => bootstrapSeq[1] > 0

\* a session heard mid-stream has played frames and has skipped lost ones
C32_Witness ==
  /\ isPlaying
  /\ audioContext
  /\ bootstrapSeq # <<>>
  /\ packetsPlayed >= 2
  /\ packetsLost >= 1
  /\ expectedSequence = bootstrapSeq[1] + packetsPlayed + packetsLost

(***************************************************************************)
(* Claims about the nonces of a broadcasting session                       *)
(***************************************************************************)
\* C33: of any two frames submitted by sendAudioToBlockchain, the one with
\* the smaller sequence number carries the smaller nonce, and no two
\* submissions share a nonce or a sequence number; this holds in every
\* state, whichever submissions have completed or failed
C33_NonceOrderIsSequenceOrder ==
  \A i, j \in DOMAIN sessionLog :
    /\ (sessionLog[i].sequence < sessionLog[j].sequence
          <=> sessionLog[i].nonce < sessionLog[j].nonce)
    /\ (i # j => /\ sessionLog[i].nonce # sessionLog[j].nonce
                 /\ sessionLog[i].sequence # sessionLog[j].sequence)

\* three frames were submitted; the second failed, the third completed
\* before the first, which is still pending
C33_Witness ==
  /\ Len(sessionLog) >= 3
  /\ sessionLog[2].sequence \in failed
  /\ sessionLog[3].sequence \in failed \cup delivered
  /\ \E frame \in inFlight : frame.sequence = sessionLog[1].sequence

(***************************************************************************)
(* Claims about the callbacks of the receipt poller                        *)
(***************************************************************************)
\* C34: for each registered transaction at most one completion callback is
\* ever called: onConfirmed and onError together are called at most once
C34_AtMostOneCallback ==
  \A t \in PollTxs : onConfirmedCalls[t] + onErrorCalls[t] <= 1

(***************************************************************************)
(* Claims about the pacing of the transmission queue                       *)
(***************************************************************************)
\* sequence numbers of the frames of one run
FrameSeqs == 0..(2 * MaxChunks - 1)

\* the frame with sequence s waits in frameQueue
QueuedSeq(s) == \E k \in DOMAIN frameQueue : frameQueue[k].sequence = s

\* the frame with sequence s was handed to the send function
HandedSeq(s) == \E i \in DOMAIN sendLog : sendLog[i] = s

\* the step leaves every queued frame at its position
QueueKept ==
  /\ Len(frameQueue') >= Len(frameQueue)
  /\ SubSeq(frameQueue', 1, Len(frameQueue)) = frameQueue

\* the step hands the frame at position 1 to the send function and moves
\* every other queued frame up by one position
QueueAdvanced ==
  /\ frameQueue # <<>>
  /\ sendLog' = Append(sendLog, frameQueue[1].sequence)
  /\ Len(frameQueue') >= Len(frameQueue) - 1
  /\ SubSeq(frameQueue', 1, Len(frameQueue) - 1) = Tail(frameQueue)

\* C36: while the encoder keeps recording and its pacing ticks keep firing,
\* every frame placed in frameQueue is eventually handed to the send
\* function, whatever failed or is pending: a step of a recording session
\* either leaves the queued frames at their positions or hands over the first
\* and moves the others up by one, and a pacing tick on a non-empty queue
\* always does the latter
C36_QueuedEventuallySubmitted ==
  /\ \A s \in FrameSeqs : QueuedSeq(s) ~> (HandedSeq(s) \/ ~isRecording)
  /\ [][(isRecording /\ isRecording') => (QueueKept \/ QueueAdvanced)]_vars
  /\ [](PacingReady => ~ENABLED (FlushFrameQueue /\ ~QueueAdvanced))

\* the frame at the third position of the queue has been handed to the send
\* function while both earlier submissions failed or are pending
C36_Witness ==
  /\ isRecording
  /\ Len(sendLog) >= 3
  /\ sendLog[1] \in failed
  /\ \E frame \in inFlight : frame.sequence = sendLog[2]
  /\ sendLog[3] = sendLog[1] + 2
  /\ frameQueue # <<>>

(***************************************************************************)
(* Claims about the framing of the captured audio                          *)
(***************************************************************************)
\* C37: the bytes of all frames cut so far, in order, are the first bytes of
\* the captured stream, and once every captured chunk has been processed
\* fewer than FRAME_SIZE captured bytes are not yet in a frame
C37_FramingLosesNothing ==
  /\ Len(framedBytes) <= Len(capturedBytes)
  /\ framedBytes = SubSeq(capturedBytes, 1, Len(framedBytes))
  /\ audioChunks = <<>> => Len(capturedBytes) - Len(framedBytes) < FRAME_SIZE

(***************************************************************************)
(* Claims about the polling listener                                       *)
(***************************************************************************)
\* C31: lastProcessedBlock never decreases, whichever way the callbacks of
\* the polling timer overlap
C31_LastProcessedNeverDecreases ==
  [][lastProcessedBlock' >= lastProcessedBlock]_vars

\* C35: every block after startBlock up to lastProcessedBlock lies in the
\* range of a getLogs query that completed
C35_NoBlockSkipped ==
  feedStarted =>
    \A b \in (startBlock + 1)..lastProcessedBlock : b \in queriedBlocks

\* a callback has failed, lastProcessedBlock has moved two blocks or more
\* past startBlock, and a getLogs of an overlapping callback that asks for
\* blocks at or below lastProcessedBlock is still in flight
C35_Witness ==
  /\ feedStarted
  /\ feedPollFailed
  /\ lastProcessedBlock >= startBlock + 2
  /\ \E p \in FeedPollIds :
       /\ feedPolls[p].phase = "logs"
       /\ feedPolls[p].fromBlock <= lastProcessedBlock
====
